---- MODULE Spec2Model ----
(***************************************************************************)
(* A model of the PR-review backend: the credential rotators and the       *)
(* generation orchestrator of app/ai_orchestrator.py, and the review       *)
(* pipeline, response parsing and categorisation of app/agents.py.         *)
(*                                                                         *)
(* Texts are sequences of chunks [sym, n]: n characters of one kind.       *)
(* Slicing, concatenation and length are computed on that encoding.        *)
(***************************************************************************)
EXTENDS Integers, Sequences, FiniteSets, TLC

VARIABLES
    GROK_KEYS,      \* ai_orchestrator.GROK_KEYS after the None filter
    GEMINI_KEYS,    \* ai_orchestrator.GEMINI_KEYS after the None filter
    current_index,  \* KeyRotator.current_index of grok_rotator / gemini_rotator
    ncalls,         \* history: get_next calls per rotator since its cursor was set to 0
    last_key,       \* history: what the last get_next of each rotator returned
    pc,             \* per flow: where the flow of control stands
    op,             \* per flow: the entry point the flow is running
    max_retries,    \* per flow: generate's max_retries argument
    retry,          \* per flow: generate's loop variable
    attempt,        \* per flow: _try_grok / _try_gemini loop variable
    log,            \* history, per flow: the provider calls of the current generate call
    ret,            \* per flow: the text generate returned
    exc,            \* per flow: the exception generate raised
    diff_context,   \* per flow: run_multi_agent_review's diff_context, one entry per file
    all_issues,     \* per flow: run_multi_agent_review's all_issues
    last_file,      \* history, per flow: what the last loop iteration did with its file
    report,         \* per flow: the value run_multi_agent_review / analyze_full_code returned
    error,          \* per flow: the exception that left the entry point
    chat,           \* per flow: chat_with_agent's arguments, its callee and its return value
    frame,          \* per flow: the locals of a get_next that other flows can interleave with
    push            \* the /api/push-to-branch request: its payload, the GET, the PUT, its answer

orch_vars == <<GROK_KEYS, GEMINI_KEYS, current_index, ncalls, last_key,
               pc, op, max_retries, retry, attempt, log, ret, exc>>

orch_vars_but_pc == <<GROK_KEYS, GEMINI_KEYS, current_index, ncalls, last_key,
                      op, max_retries, retry, attempt, log, ret, exc>>

review_vars == <<diff_context, all_issues, last_file, report, error>>

vars == <<orch_vars, review_vars, chat, frame, push>>

(***************************************************************************)
(* Bounds of the model.                                                    *)
(***************************************************************************)
MaxKeys == 2        \* environment slots considered per provider
MaxRetries == 2     \* largest max_retries passed to generate
MaxFiles == 2       \* changed files of one review run
MaxIssues == 2      \* Issues in one model response

\* get_next calls followed per rotator from a cursor at 0: two rounds of the largest
\* pool, which a generate of two cycles that fails on every key makes
MaxCalls == 2 * MaxKeys

Flows == {"f1", "f2"}
MainFlow == "f1"

Providers == {"Grok", "Gemini"}

None == "None"

(***************************************************************************)
(* JSON values and texts.  A JSON value is [t, s, l]: its type, and its     *)
(* string or list payload.  A text is a sequence of chunks [sym, n, val]:  *)
(* n consecutive characters, sym naming what they are; the chunk of an     *)
(* object member carries the member's decoded value.                       *)
(***************************************************************************)
JNone == [t |-> "none", s |-> "", l |-> << >>]
JNull == [t |-> "null", s |-> "", l |-> << >>]
JStr(x) == [t |-> "str", s |-> x, l |-> << >>]
JList(x) == [t |-> "list", s |-> "", l |-> x]

Chunk(s, k) == [sym |-> s, n |-> k, val |-> JNone]

EmptyText == << >>

\* len(t)
RECURSIVE TextLen(_)
TextLen(t) == IF t = << >> THEN 0 ELSE Head(t).n + TextLen(Tail(t))

\* t[:k]
RECURSIVE Prefix(_, _)
Prefix(t, k) ==
    IF t = << >> \/ k <= 0 THEN << >>
    ELSE IF Head(t).n <= k THEN <<Head(t)>> \o Prefix(Tail(t), k - Head(t).n)
    ELSE <<[Head(t) EXCEPT !.n = k]>>

\* t[k:]
RECURSIVE Drop(_, _)
Drop(t, k) ==
    IF t = << >> THEN << >>
    ELSE IF k <= 0 THEN t
    ELSE IF Head(t).n <= k THEN Drop(Tail(t), k - Head(t).n)
    ELSE <<[Head(t) EXCEPT !.n = @ - k]>> \o Tail(t)

\* provider texts seen by a direct generate call
PlainText == <<Chunk("prose", 5)>>
OtherText == <<Chunk("prose", 7)>>

(***************************************************************************)
(* json.loads on texts.  The JSON texts are the objects "{" member* "}"    *)
(* over the members summary, issues and recommendation, and null.          *)
(***************************************************************************)
MemberChars == 20   \* characters taken by one member of a JSON object

MemberKeys == {"summary", "issues", "recommendation",
               "explanation", "modified_code", "changes_summary"}

Member(key, v) == [sym |-> key, n |-> MemberChars, val |-> v]

LBrace == Chunk("{", 1)
RBrace == Chunk("}", 1)
NullText == <<Chunk("null", 4)>>

EmptyDict == [k \in {} |-> JNone]

\* a chunk that is one whole member of an object
IsMember(c) == c.sym \in MemberKeys /\ c.n = MemberChars /\ c.val.t # "none"

\* the dict of the members ms: a repeated key keeps its last value
DictOf(ms) ==
    [k \in {ms[i].sym : i \in DOMAIN ms} |->
        ms[CHOOSE i \in DOMAIN ms :
              ms[i].sym = k /\ \A j \in DOMAIN ms : ms[j].sym = k => j <= i].val]

IsObjectText(t) ==
    /\ Len(t) >= 2
    /\ t[1] = LBrace
    /\ t[Len(t)] = RBrace
    /\ \A i \in 2 .. Len(t) - 1 : IsMember(t[i])

\* json.loads(t): ok is FALSE where it raises JSONDecodeError
json_loads(t) ==
    IF IsObjectText(t) THEN [ok |-> TRUE, kind |-> "dict", d |-> DictOf(SubSeq(t, 2, Len(t) - 1))]
    ELSE IF t = NullText THEN [ok |-> TRUE, kind |-> "null", d |-> EmptyDict]
    ELSE [ok |-> FALSE, kind |-> "error", d |-> EmptyDict]

\* d.get(k, default)
Get(d, k, default) == IF k \in DOMAIN d THEN d[k] ELSE default

\* re.search(r'\{.*\}', t, re.DOTALL): from the first "{" to the last "}" after it
BracePositions(t, c) == {i \in DOMAIN t : t[i] = c}
MaxOf(S) == CHOOSE x \in S : \A y \in S : y <= x
MinOf(S) == CHOOSE x \in S : \A y \in S : x <= y

json_match(t) ==
    LET lbs == BracePositions(t, LBrace)
        rbs == BracePositions(t, RBrace)
    IN  IF lbs # {} /\ rbs # {} /\ MinOf(lbs) < MaxOf(rbs)
        THEN [found |-> TRUE, group |-> SubSeq(t, MinOf(lbs), MaxOf(rbs))]
        ELSE [found |-> FALSE, group |-> EmptyText]

(***************************************************************************)
(* Strings that are inspected character by character: Issue categories.    *)
(***************************************************************************)
UpperAlpha == <<"A", "B", "C", "D", "E", "F", "G", "H", "I", "J", "K", "L", "M", "N", "O", "P", "Q", "R", "S", "T", "U", "V", "W", "X", "Y", "Z">>
LowerAlpha == <<"a", "b", "c", "d", "e", "f", "g", "h", "i", "j", "k", "l", "m", "n", "o", "p", "q", "r", "s", "t", "u", "v", "w", "x", "y", "z">>

LowerChar(c) ==
    IF \E i \in DOMAIN UpperAlpha : UpperAlpha[i] = c
    THEN LowerAlpha[CHOOSE i \in DOMAIN UpperAlpha : UpperAlpha[i] = c]
    ELSE c

\* str.lower()
Lower(str) == [i \in DOMAIN str |-> LowerChar(str[i])]

\* sub in str
Contains(str, sub) ==
    \E i \in 0 .. Len(str) - Len(sub) : SubSeq(str, i + 1, i + Len(sub)) = sub

\* any(x in cat for x in words)
AnyIn(words, cat) == \E w \in words : Contains(cat, w)

LintWord == <<"l", "i", "n", "t">>

SecurityWords == {
    <<"s", "e", "c", "u", "r", "i", "t", "y">>,
    <<"v", "u", "l", "n", "e", "r", "a", "b", "i", "l", "i", "t", "y">>,
    <<"a", "u", "t", "h">>,
    <<"i", "n", "j", "e", "c", "t", "i", "o", "n">>,
    <<"x", "s", "s">>,
    <<"s", "a", "f", "e">> }

PerformanceWords == {
    <<"p", "e", "r", "f", "o", "r", "m", "a", "n", "c", "e">>,
    <<"e", "f", "f", "i", "c", "i", "e", "n", "c", "y">>,
    <<"s", "c", "a", "l", "a", "b", "i", "l", "i", "t", "y">>,
    <<"m", "e", "m", "o", "r", "y">>,
    <<"s", "p", "e", "e", "d">>,
    <<"o", "p", "t", "i", "m", "i", "z">> }

Linting == <<"L", "i", "n", "t", "i", "n", "g">>
SqlInjectionRisk == <<"S", "Q", "L", " ", "I", "n", "j", "e", "c", "t", "i", "o", "n", " ", "R", "i", "s", "k">>
NPlusOneQuery == <<"N", "+", "1", " ", "Q", "u", "e", "r", "y">>
MissingDocstring == <<"M", "i", "s", "s", "i", "n", "g", " ", "d", "o", "c", "s", "t", "r", "i", "n", "g">>
PerformanceCat == <<"P", "e", "r", "f", "o", "r", "m", "a", "n", "c", "e">>
LintUnsafe == <<"L", "I", "N", "T", " ", "u", "n", "s", "a", "f", "e">>
MemorySafety == <<"M", "e", "m", "o", "r", "y", " ", "s", "a", "f", "e", "t", "y">>
SystemCat == <<"S", "y", "s", "t", "e", "m">>
AIResponseCat == <<"A", "I", " ", "R", "e", "s", "p", "o", "n", "s", "e">>

(***************************************************************************)
(* Environment: which of the GROK_n / GEMINI_API_KEY_n slots are set.      *)
(***************************************************************************)
GrokSlots == <<"GROK_1", "GROK_2", "GROK_3", "GROK_4", "GROK_5">>
GeminiSlots == <<"GEMINI_API_KEY_1", "GEMINI_API_KEY_2", "GEMINI_API_KEY_3", "GEMINI_API_KEY_4">>

Min(a, b) == IF a < b THEN a ELSE b

\* [k for k in KEYS if k]: the slots that are set, in slot order
RECURSIVE FilterSet(_, _, _)
FilterSet(slots, set, i) ==
    IF i > Len(slots) THEN << >>
    ELSE (IF i \in set THEN <<slots[i]>> ELSE << >>) \o FilterSet(slots, set, i + 1)

KeyPools(slots) ==
    { FilterSet(slots, set, 1) : set \in SUBSET (1 .. Min(MaxKeys, Len(slots))) }

(***************************************************************************)
(* KeyRotator.                                                             *)
(***************************************************************************)
keys_of(p) == IF p = "Grok" THEN GROK_KEYS ELSE GEMINI_KEYS

\* mutant: the key is read after the cursor has moved
get_next_key_late(keys, idx) ==
    IF keys = << >> THEN None ELSE keys[((idx + 1) % Len(keys)) + 1]

\* the value get_next returns
get_next_key(keys, idx) == IF keys = << >> THEN None ELSE keys[idx + 1]

\* mutant: the cursor advances without wrapping round
get_next_index_unwrapped(keys, idx) == IF keys = << >> THEN idx ELSE idx + 1

\* mutant: get_next leaves the cursor where it is
get_next_index_stays(keys, idx) == idx

\* current_index after get_next
get_next_index(keys, idx) == IF keys = << >> THEN idx ELSE (idx + 1) % Len(keys)

\* the rotator state after one get_next on rotator p
Rotated(p) ==
    /\ current_index' = [current_index EXCEPT ![p] = get_next_index(keys_of(p), @)]
    /\ last_key' = [last_key EXCEPT ![p] = get_next_key(keys_of(p), current_index[p])]
    /\ ncalls' = [ncalls EXCEPT ![p] = @ + 1]

grok_enabled == Len(GROK_KEYS) > 0
gemini_enabled == Len(GEMINI_KEYS) > 0

(***************************************************************************)
(* Exceptions and provider outcomes.                                       *)
(***************************************************************************)
NoExc == [type |-> "none", args |-> << >>]
TypeError == [type |-> "TypeError", args |-> << >>]

\* mutant: the message names the last loop index instead of max_retries
GenerationFailedIndex(m) ==
    [type |-> "Exception", args |-> <<Len(GROK_KEYS), Len(GEMINI_KEYS), m - 1>>]

\* the Exception generate raises: its message names the two pool sizes and max_retries
GenerationFailed(m) ==
    [type |-> "Exception", args |-> <<Len(GROK_KEYS), Len(GEMINI_KEYS), m>>]

Idle(f) == pc[f] \in {"idle", "returned", "raised"}

(***************************************************************************)
(* Files and patches.  A file's text is the sequence of its lines, one     *)
(* chunk per line (n counts the newline).  A patch is the sequence of its  *)
(* lines: "@@" hunk headers carrying their ranges, and " ", "-" and "+"    *)
(* lines carrying a file line; any other chunk is text git cannot read.    *)
(***************************************************************************)
ImportLine == Chunk("import os", 10)
DefLine == Chunk("def hello():", 13)
PrintHello == Chunk("    print('Hello')", 19)
PrintWorld == Chunk("    print('World')", 19)
CallLine == Chunk("hello()", 8)

\* "@@ -os,oc +ns,nc @@"
HunkHeader(os, oc, ns, nc) ==
    [sym |-> "@@", n |-> 16, val |-> [t |-> "range", s |-> "", l |-> <<os, oc, ns, nc>>]]
PatchLine(o, line) == [sym |-> o, n |-> line.n + 1, val |-> JStr(line.sym)]
Context(line) == PatchLine(" ", line)
Deleted(line) == PatchLine("-", line)
Added(line) == PatchLine("+", line)

\* the file line a patch line carries
LineOf(c) == Chunk(c.val.s, c.n - 1)

IsOp(c) == c.sym \in {" ", "-", "+"}
OldSide(c) == c.sym \in {" ", "-"}
NewSide(c) == c.sym \in {" ", "+"}

(***************************************************************************)
(* `git apply --ignore-space-change --ignore-whitespace patch.diff`, run   *)
(* on temp_file and the patch behind the "--- a/temp_file" header: what    *)
(* git 2.39 does with patches of this shape.                               *)
(***************************************************************************)
\* the index behind the body of a hunk that starts at p[i] and has oc old-side and
\* nc new-side lines left; 0 when the patch ends or turns unreadable before that
RECURSIVE HunkEnd(_, _, _, _)
HunkEnd(p, i, oc, nc) ==
    IF oc = 0 /\ nc = 0 THEN i
    ELSE IF i > Len(p) THEN 0
    ELSE IF ~IsOp(p[i]) THEN 0
    ELSE IF (OldSide(p[i]) /\ oc = 0) \/ (NewSide(p[i]) /\ nc = 0) THEN 0
    ELSE HunkEnd(p, i + 1,
                 IF OldSide(p[i]) THEN oc - 1 ELSE oc,
                 IF NewSide(p[i]) THEN nc - 1 ELSE nc)

\* the hunks of patch p from p[i] on.  What follows the last hunk is ignored, unless
\* a hunk header is in it; a hunk that changes nothing is corrupt
RECURSIVE ParseHunks(_, _)
ParseHunks(p, i) ==
    IF i > Len(p) THEN [ok |-> TRUE, hunks |-> << >>]
    ELSE IF p[i].sym # "@@"
    THEN [ok |-> \A k \in i .. Len(p) : p[k].sym # "@@", hunks |-> << >>]
    ELSE LET range == p[i].val.l
             e == HunkEnd(p, i + 1, range[2], range[4])
         IN  IF e = 0 THEN [ok |-> FALSE, hunks |-> << >>]
             ELSE IF \A k \in i + 1 .. e - 1 : p[k].sym = " "
             THEN [ok |-> FALSE, hunks |-> << >>]
             ELSE [ok |-> ParseHunks(p, e).ok,
                   hunks |-> <<[oldpos |-> range[1], newpos |-> range[3],
                                body |-> SubSeq(p, i + 1, e - 1)]>>
                             \o ParseHunks(p, e).hunks]

\* a patch git reads: it starts with a hunk header and its hunks are complete
ReadablePatch(p) == Len(p) >= 1 /\ p[1].sym = "@@" /\ ParseHunks(p, 1).ok

LinesOf(body) == [i \in DOMAIN body |-> LineOf(body[i])]
OldLines(h) == LinesOf(SelectSeq(h.body, OldSide))
NewLines(h) == LinesOf(SelectSeq(h.body, NewSide))

\* the context lines behind the last changed line of a hunk
Trailing(h) ==
    Len(h.body) - MaxOf({k \in DOMAIN h.body : h.body[k].sym # " "})

MatchesAt(img, pre, pos) ==
    /\ pos + Len(pre) <= Len(img)
    /\ \A k \in DOMAIN pre : img[pos + k] = pre[k]

\* where hunk h may go in img (0-based): its old-side lines are there; a hunk that
\* starts at line 0 or 1 goes to the start of the file only, and a hunk without
\* trailing context to the end of the file only
Positions(img, h) ==
    {pos \in 0 .. Len(img) :
        /\ MatchesAt(img, OldLines(h), pos)
        /\ h.oldpos <= 1 => pos = 0
        /\ Trailing(h) = 0 => pos + Len(OldLines(h)) = Len(img)}

Abs(x) == IF x < 0 THEN 0 - x ELSE x

\* the position nearest to the line the hunk names in the new file, the later one of
\* two equally near
FindPos(img, h) ==
    LET line == IF h.newpos = 0 THEN 0 ELSE h.newpos - 1
    IN  CHOOSE pos \in Positions(img, h) :
            \A q \in Positions(img, h) :
                \/ Abs(pos - line) < Abs(q - line)
                \/ Abs(pos - line) = Abs(q - line) /\ pos >= q

RECURSIVE ApplyHunks(_, _)
ApplyHunks(img, hs) ==
    IF hs = << >> THEN [ok |-> TRUE, img |-> img]
    ELSE IF Positions(img, Head(hs)) = {} THEN [ok |-> FALSE, img |-> img]
    ELSE LET pos == FindPos(img, Head(hs))
         IN  ApplyHunks(SubSeq(img, 1, pos) \o NewLines(Head(hs))
                            \o SubSeq(img, pos + Len(OldLines(Head(hs))) + 1, Len(img)),
                        Tail(hs))

\* the return code of git apply and the content of temp_file after it: the file is
\* written only when every hunk applies
git_apply(original, patch) ==
    IF ~ReadablePatch(patch) THEN [returncode |-> 128, content |-> original]
    ELSE IF ApplyHunks(original, ParseHunks(patch, 1).hunks).ok
    THEN [returncode |-> 0,
          content |-> ApplyHunks(original, ParseHunks(patch, 1).hunks).img]
    ELSE [returncode |-> 1, content |-> original]

\* the patches of the review runs: a hunk with context on both sides for the fetched
\* file, no text, and texts at the ceiling of the prompt and one character above it
GoodPatch ==
    <<HunkHeader(1, 4, 1, 4), Context(ImportLine), Context(DefLine), Deleted(PrintHello),
      Added(PrintWorld), Context(CallLine)>>

\* patch_text of test_patch.py
TestPatch ==
    <<HunkHeader(1, 2, 1, 2), Context(DefLine), Deleted(PrintHello), Added(PrintWorld)>>

\* what `diff -U0` prints for the change of line 3
ZeroContextPatch == <<HunkHeader(3, 1, 3, 1), Deleted(PrintHello), Added(PrintWorld)>>

\* a context line that is not in the file
MismatchPatch ==
    <<HunkHeader(1, 2, 1, 2), Context(Chunk("def goodbye():", 15)), Deleted(PrintHello),
      Added(PrintWorld)>>

\* a hunk cut before its last line
TruncatedPatch == <<HunkHeader(1, 2, 1, 2), Context(DefLine), Deleted(PrintHello)>>

TwoHunkPatch ==
    <<HunkHeader(1, 2, 1, 2), Deleted(ImportLine), Added(Chunk("import sys", 11)),
      Context(DefLine),
      HunkHeader(3, 2, 3, 2), Context(PrintHello), Deleted(CallLine), Added(Chunk("bye()", 6))>>

\* its second hunk deletes a line that is not in the file
TwoHunkSecondFails ==
    <<HunkHeader(1, 2, 1, 2), Deleted(ImportLine), Added(Chunk("import sys", 11)),
      Context(DefLine),
      HunkHeader(3, 2, 3, 2), Context(PrintHello), Deleted(Chunk("goodbye()", 10)),
      Added(Chunk("bye()", 6))>>

\* the patch of a file the pull request adds: there is nothing to fetch for it
NewFilePatch == <<HunkHeader(0, 0, 1, 2), Added(DefLine), Added(PrintHello)>>

HunkPatchTexts ==
    {EmptyText, GoodPatch, TestPatch, ZeroContextPatch, MismatchPatch, TruncatedPatch,
     TwoHunkPatch, TwoHunkSecondFails, NewFilePatch}

(***************************************************************************)
(* The data of a review run: changed files, patches, Issues, reports.      *)
(***************************************************************************)
\* an optional text: None, or a str
NoneVal == [is_none |-> TRUE, v |-> EmptyText]
Some(t) == [is_none |-> FALSE, v |-> t]

\* Python truthiness of an optional text: None and "" are falsy
TruthyOpt(x) == ~x.is_none /\ x.v # EmptyText

Ceiling == 10000
Marker == <<Chunk("newline", 1), Chunk("... (truncated)", 15)>>

Filenames == {<<"a", ".py">>, <<"b", ".txt">>}

\* the "patch" of a changed file: absent from GitHub's answer (None), empty, a hunk
\* that applies to the fetched file, a text exactly at the ceiling and one a character
\* above it (in two chunks)
PatchTexts ==
    { EmptyText,
      GoodPatch,
      <<Chunk("diff", Ceiling)>>,
      <<Chunk("hunk", Ceiling - 1), Chunk("diff", 2)>> }
PatchValues == {NoneVal} \cup {Some(t) : t \in PatchTexts}
HunkPatchValues == {NoneVal} \cup {Some(t) : t \in HunkPatchTexts}

\* the file at raw_url, and original_text of test_patch.py
OriginalText == <<ImportLine, DefLine, PrintHello, CallLine>>
TestOriginal == <<DefLine, PrintHello>>
PatchedText == <<ImportLine, DefLine, PrintWorld, CallLine>>

\* what requests.get(raw_url) does: raises, or answers with a status and a body
FetchOutcomes ==
    { [kind |-> "exception", status_code |-> 0, text |-> EmptyText],
      [kind |-> "response", status_code |-> 404, text |-> OriginalText],
      [kind |-> "response", status_code |-> 200, text |-> OriginalText] }
HunkFetchOutcomes ==
    FetchOutcomes \cup {[kind |-> "response", status_code |-> 200, text |-> TestOriginal]}

\* what pylint prints: invalid or empty output, or a JSON list of messages
PylintMessages ==
    << [type |-> "convention", symbol |-> "missing-docstring", symbol_len |-> 17,
        message |-> "Missing docstring", message_len |-> 17, line |-> 1],
       [type |-> "error", symbol |-> "undefined-variable", symbol_len |-> 18,
        message |-> "Undefined variable", message_len |-> 18, line |-> 2] >>
PylintOutcomes ==
    { [valid |-> FALSE, errors |-> << >>],
      [valid |-> TRUE, errors |-> << >>],
      [valid |-> TRUE, errors |-> PylintMessages] }

\* an Issue dict.  cat_kind says whether "category" is a str, is absent or is null;
\* src (history) says who produced the Issue
Issue(kind, cat, sev, file, line, msg, sug, src) ==
    [cat_kind |-> kind, category |-> cat, severity |-> sev, file |-> file, line |-> line,
     message |-> msg, suggestion |-> sug, src |-> src]

ModelIssue(kind, cat) ==
    Issue(kind, cat, "High", <<"a", ".py">>, 0, <<Chunk("prose", 9)>>, "Fix it", "model")

ModelIssues ==
    { ModelIssue("str", c) :
        c \in {SqlInjectionRisk, NPlusOneQuery, MissingDocstring, PerformanceCat,
               LintUnsafe, MemorySafety} }
    \cup {ModelIssue("absent", << >>), ModelIssue("null", << >>)}

SeqsUpTo(S, n) == UNION {[1 .. k -> S] : k \in 0 .. n}

\* the texts a provider answers a review prompt with
ObjectText(members) == <<LBrace>> \o members \o <<RBrace>>
FullObject(l) ==
    ObjectText(<<Member("summary", JStr("ok")), Member("issues", JList(l)),
                 Member("recommendation", JStr("Approve"))>>)
LongProse == <<Chunk("prose", 600)>>
ReviewResponses ==
    {FullObject(l) : l \in SeqsUpTo(ModelIssues, MaxIssues)}
    \cup { EmptyText,
           ObjectText(<< >>),
           ObjectText(<<Member("issues", JNull)>>),
           NullText,
           PlainText,
           LongProse,
           <<Chunk("prose", 3)>> \o FullObject(<< >>) \o <<Chunk("prose", 7)>>,
           <<Chunk("prose", 3), RBrace>> \o FullObject(<< >>) \o <<LBrace>>,
           <<Chunk("prose", 3), LBrace, Chunk("prose", 2), RBrace>> \o FullObject(<< >>)
               \o <<Chunk("prose", 7)>>,
           <<LBrace, Chunk("prose", 600), RBrace>> }

\* what one provider call can do: raise, or return content (possibly empty or None)
Responses == {EmptyText, PlainText, OtherText}
OutcomesOver(texts) ==
    {[kind |-> "error", text |-> EmptyText]} \cup {[kind |-> "content", text |-> t] : t \in texts}
\* what the model answers to the prompts of chat_with_agent: the object asked for,
\* an empty object, null, prose, and prose with the code in a fenced block
CodeBlock(code) == [sym |-> "fence", n |-> 47, val |-> JStr(code)]
ChatResponses ==
    { ObjectText(<<Member("explanation", JStr("Added the h1.")),
                   Member("modified_code", JStr("<html><body><h1>hello</h1></body></html>")),
                   Member("changes_summary", JStr("- h1 added"))>>),
      ObjectText(<< >>),
      NullText,
      EmptyText,
      PlainText,
      <<Chunk("prose", 5), CodeBlock("<html><body><h1>hello</h1></body></html>")>> }

Outcomes(o) ==
    IF o = "generate" THEN OutcomesOver(Responses)
    ELSE IF o = "chat" THEN OutcomesOver(ChatResponses)
    ELSE OutcomesOver(ReviewResponses)

NoFile ==
    [filename |-> << >>, patch |-> NoneVal, raw_url |-> "", original |-> EmptyText,
     applied |-> FALSE, reconstructed |-> NoneVal, linted |-> FALSE, lint_issues |-> << >>]

NoReport == [kind |-> "none", d |-> EmptyDict]

\* no get_next is under way: its locals do not exist
NoFrame == [rotator |-> "none", key |-> None, index |-> 0]

\* chat_with_agent is not running: no arguments, nothing called, nothing returned
NoChat == [message |-> << >>, context |-> EmptyDict, called |-> "none", returned |-> EmptyDict]
DictReport(d) == [kind |-> "dict", d |-> d]

\* no request of GitHub's contents API was made / no answer was given
NoRequest == [status |-> -1, sha |-> None]
NoData == [message |-> None, content |-> << >>, branch |-> None, has_sha |-> FALSE, sha |-> None]
NoResult == [ok |-> FALSE, kind |-> "none", status_code |-> 0, new_sha |-> None]

\* push_to_branch is not running
NoPush ==
    [pc |-> "idle", sha |-> None, content |-> << >>, message |-> None, branch |-> None,
     got |-> NoRequest, current_sha |-> None, data |-> NoData, put |-> NoRequest,
     result |-> NoResult]

Init ==
    /\ GROK_KEYS \in KeyPools(GrokSlots)
    /\ GEMINI_KEYS \in KeyPools(GeminiSlots)
    /\ current_index = [p \in Providers |-> 0]
    /\ ncalls = [p \in Providers |-> 0]
    /\ last_key = [p \in Providers |-> None]
    /\ pc = [f \in Flows |-> "idle"]
    /\ op = [f \in Flows |-> "none"]
    /\ max_retries = [f \in Flows |-> 0]
    /\ retry = [f \in Flows |-> 0]
    /\ attempt = [f \in Flows |-> 0]
    /\ log = [f \in Flows |-> << >>]
    /\ ret = [f \in Flows |-> EmptyText]
    /\ exc = [f \in Flows |-> NoExc]
    /\ diff_context = [f \in Flows |-> << >>]
    /\ all_issues = [f \in Flows |-> << >>]
    /\ last_file = [f \in Flows |-> NoFile]
    /\ report = [f \in Flows |-> NoReport]
    /\ error = [f \in Flows |-> NoExc]
    /\ chat = [f \in Flows |-> NoChat]
    /\ frame = [f \in Flows |-> NoFrame]
    /\ push = NoPush

(***************************************************************************)
(* AIOrchestrator.generate, _try_grok and _try_gemini.                     *)
(***************************************************************************)
\* mutant: generate tests `result is not None`, and a pass always yields a str
TruthyNotNone(t) == TRUE

\* Python truthiness of a pass result: None and "" are both falsy
Truthy(t) == t # EmptyText

\* mutant: the loop of generate runs for range(max_retries + 1)
EnterCycleInclusive(m, r) ==
    IF r > m \/ (~grok_enabled /\ ~gemini_enabled) THEN [pc |-> "raised", retry |-> r]
    ELSE IF grok_enabled THEN [pc |-> "grok", retry |-> r]
    ELSE [pc |-> "gemini", retry |-> r]

\* the head of generate's for loop at iteration r, for max_retries m: what runs next
EnterCycle(m, r) ==
    IF r >= m \/ (~grok_enabled /\ ~gemini_enabled) THEN [pc |-> "raised", retry |-> r]
    ELSE IF grok_enabled THEN [pc |-> "grok", retry |-> r]
    ELSE [pc |-> "gemini", retry |-> r]

\* mutant: generate goes on to Gemini whatever _try_grok returned
AfterGrokFallsThrough(m, r, result) ==
    IF gemini_enabled THEN [pc |-> "gemini", retry |-> r]
    ELSE IF Truthy(result) THEN [pc |-> "returned", retry |-> r]
    ELSE EnterCycle(m, r + 1)

\* generate after _try_grok returned result in cycle r
AfterGrok(m, r, result) ==
    IF Truthy(result) THEN [pc |-> "returned", retry |-> r]
    ELSE IF gemini_enabled THEN [pc |-> "gemini", retry |-> r]
    ELSE EnterCycle(m, r + 1)

\* generate after _try_gemini returned result in cycle r
AfterGemini(m, r, result) ==
    IF Truthy(result) THEN [pc |-> "returned", retry |-> r]
    ELSE EnterCycle(m, r + 1)

\* mutant: the loop runs once more than the pool has keys
MoreKeysOffByOne(keys, a) == a + 1 <= Len(keys)

\* whether the loop of a _try_ function goes on to another key after a failed attempt
MoreKeys(keys, a) == a + 1 < Len(keys)

\* where the caller of generate picks up when generate returns or raises: a direct
\* call is over; run_multi_agent_review and analyze_full_code go on in their try block
Resume(o, outcome) ==
    IF o = "review" THEN "review_result"
    ELSE IF o = "deep" THEN "deep_result"
    ELSE IF o = "chat" THEN "chat_result"
    ELSE outcome

\* flow f moves to control point c; a returned generate carries text t
Goto(f, c, t) ==
    /\ retry' = [retry EXCEPT ![f] = c.retry]
    /\ attempt' = [attempt EXCEPT ![f] = 0]
    /\ pc' = [pc EXCEPT ![f] =
                 IF c.pc \in {"returned", "raised"} THEN Resume(op[f], c.pc) ELSE c.pc]
    /\ ret' = [ret EXCEPT ![f] = IF c.pc = "returned" THEN t ELSE @]
    /\ exc' = [exc EXCEPT ![f] = IF c.pc = "raised" THEN GenerationFailed(max_retries[f]) ELSE @]

\* the accounts that are over their quota: a call with one of their keys that fails
\* raises the API's rate-limit error (HTTP 429), a failing call with another key
\* raises some other error (authentication, connection, server)
QuotaExhausted == {GrokSlots[1], GeminiSlots[1]}

\* the exception a failing call with the key raises inside the try block
RaisedBy(key) == IF key \in QuotaExhausted THEN "quota" ELSE "other"

LogEntry(f, p, o) ==
    [provider |-> p,
     key |-> get_next_key(keys_of(p), current_index[p]),
     kind |-> IF o.kind = "error" THEN "error"
              ELSE IF Truthy(o.text) THEN "text" ELSE "empty",
     raised |-> IF o.kind = "error"
                THEN RaisedBy(get_next_key(keys_of(p), current_index[p]))
                ELSE "none",
     text |-> o.text,
     retry |-> retry[f]]

\* the get_next calls a generate with max_retries m can make stay within MaxCalls
CallsFit(m) == \A p \in Providers : ncalls[p] + m * Len(keys_of(p)) <= MaxCalls

\* the locals of run_multi_agent_review / analyze_full_code of flow f are not in use
ResetReview(f) ==
    /\ diff_context' = [diff_context EXCEPT ![f] = << >>]
    /\ all_issues' = [all_issues EXCEPT ![f] = << >>]
    /\ last_file' = [last_file EXCEPT ![f] = NoFile]
    /\ report' = [report EXCEPT ![f] = NoReport]
    /\ error' = [error EXCEPT ![f] = NoExc]

\* flow f is not inside chat_with_agent
ResetChat(f) == chat' = [chat EXCEPT ![f] = NoChat]

\* flow f, running entry point o, enters generate with max_retries m
Begin(f, o, m) ==
    /\ max_retries' = [max_retries EXCEPT ![f] = m]
    /\ log' = [log EXCEPT ![f] = << >>]
    /\ retry' = [retry EXCEPT ![f] = EnterCycle(m, 0).retry]
    /\ attempt' = [attempt EXCEPT ![f] = 0]
    /\ pc' = [pc EXCEPT ![f] =
                 IF EnterCycle(m, 0).pc = "raised" THEN Resume(o, "raised")
                 ELSE EnterCycle(m, 0).pc]
    /\ ret' = [ret EXCEPT ![f] = EmptyText]
    /\ exc' = [exc EXCEPT ![f] =
                  IF EnterCycle(m, 0).pc = "raised" THEN GenerationFailed(m) ELSE NoExc]

\* mutant: every generate call starts its rotators again at the first key
generate_rewinds(f, m) ==
    /\ Idle(f)
    /\ CallsFit(m)
    /\ op' = [op EXCEPT ![f] = "generate"]
    /\ Begin(f, "generate", m)
    /\ ResetReview(f)
    /\ ResetChat(f)
    /\ current_index' = [p \in Providers |-> 0]
    /\ UNCHANGED <<push, GROK_KEYS, GEMINI_KEYS, ncalls, last_key, frame>>

\* orchestrator.generate(prompt, response_format, max_retries = m), called directly
generate(f, m) ==
    /\ Idle(f)
    /\ CallsFit(m)
    /\ op' = [op EXCEPT ![f] = "generate"]
    /\ Begin(f, "generate", m)
    /\ ResetReview(f)
    /\ ResetChat(f)
    /\ UNCHANGED frame
    /\ UNCHANGED <<push, GROK_KEYS, GEMINI_KEYS, current_index, ncalls, last_key>>

\* one iteration of the loop of _try_grok
try_grok(f) ==
    /\ pc[f] = "grok"
    /\ Rotated("Grok")
    /\ \E o \in Outcomes(op[f]) :
         /\ log' = [log EXCEPT ![f] = Append(@, LogEntry(f, "Grok", o))]
         /\ IF o.kind = "error" /\ MoreKeys(GROK_KEYS, attempt[f])
            THEN /\ attempt' = [attempt EXCEPT ![f] = @ + 1]
                 /\ UNCHANGED <<push, pc, retry, ret, exc>>
            ELSE Goto(f, AfterGrok(max_retries[f], retry[f], o.text), o.text)
    /\ UNCHANGED <<push, GROK_KEYS, GEMINI_KEYS, op, max_retries, review_vars, chat, frame>>

\* one iteration of the loop of _try_gemini
try_gemini(f) ==
    /\ pc[f] = "gemini"
    /\ Rotated("Gemini")
    /\ \E o \in Outcomes(op[f]) :
         /\ log' = [log EXCEPT ![f] = Append(@, LogEntry(f, "Gemini", o))]
         /\ IF o.kind = "error" /\ MoreKeys(GEMINI_KEYS, attempt[f])
            THEN /\ attempt' = [attempt EXCEPT ![f] = @ + 1]
                 /\ UNCHANGED <<push, pc, retry, ret, exc>>
            ELSE Goto(f, AfterGemini(max_retries[f], retry[f], o.text), o.text)
    /\ UNCHANGED <<push, GROK_KEYS, GEMINI_KEYS, op, max_retries, review_vars, chat, frame>>

\* flow f, between entry points, starts entry point o at control point p0: the
\* results of the last entry point are gone
Enter(f, o, p0) ==
    /\ Idle(f)
    /\ op' = [op EXCEPT ![f] = o]
    /\ pc' = [pc EXCEPT ![f] = p0]
    /\ max_retries' = [max_retries EXCEPT ![f] = 0]
    /\ retry' = [retry EXCEPT ![f] = 0]
    /\ attempt' = [attempt EXCEPT ![f] = 0]
    /\ log' = [log EXCEPT ![f] = << >>]
    /\ ret' = [ret EXCEPT ![f] = EmptyText]
    /\ exc' = [exc EXCEPT ![f] = NoExc]
    /\ ResetReview(f)
    /\ ResetChat(f)
    /\ UNCHANGED frame

\* a direct call of KeyRotator.get_next on rotator p
get_next(f, p) ==
    /\ Enter(f, "get_next", "idle")
    /\ ncalls[p] < MaxCalls
    /\ Rotated(p)
    /\ UNCHANGED <<push, GROK_KEYS, GEMINI_KEYS>>

\* KeyRotator.reset on rotator p
reset(f, p) ==
    /\ Enter(f, "reset", "idle")
    /\ current_index' = [current_index EXCEPT ![p] = 0]
    /\ ncalls' = [ncalls EXCEPT ![p] = 0]
    /\ UNCHANGED <<push, GROK_KEYS, GEMINI_KEYS, last_key>>

Next ==
    \E f \in {MainFlow} :
        \/ \E m \in 0 .. MaxRetries : generate(f, m)
        \/ try_grok(f)
        \/ try_gemini(f)
        \/ \E p \in Providers : get_next(f, p)
        \/ \E p \in Providers : reset(f, p)

Spec == Init /\ [][Next]_vars

(***************************************************************************)
(* The review pipeline: run_multi_agent_review and its helpers.            *)
(***************************************************************************)
DefaultRetries == 1

\* fetch_raw_file: the body of a 200 answer, "" on any other answer or exception
fetch_raw_file(r) ==
    IF r.kind = "response" /\ r.status_code = 200 THEN r.text ELSE EmptyText

\* mutant: subprocess.run without check=True, a failed git apply goes unnoticed
apply_patch_unchecked(original, patch, git) ==
    IF patch.is_none THEN NoneVal
    ELSE Some(git.content)

\* apply_patch_to_content, given what git apply does.  A None patch raises TypeError
\* at the concatenation with the header, which the function catches
apply_patch_to_content(original, patch, git) ==
    IF patch.is_none THEN NoneVal
    ELSE IF git.returncode # 0 THEN NoneVal
    ELSE Some(git.content)

LintMessage(e) == <<Chunk(e.symbol, e.symbol_len), Chunk(": ", 2), Chunk(e.message, e.message_len)>>

\* run_linter, given what pylint prints
run_linter(file_content, filename, out) ==
    IF filename[Len(filename)] # ".py" THEN << >>
    ELSE IF ~out.valid THEN << >>
    ELSE [i \in DOMAIN out.errors |->
            Issue("str", Linting, out.errors[i].type, filename, out.errors[i].line,
                  LintMessage(out.errors[i]), "Fix linting error", "lint")]

\* mutant: the slice keeps one character more than the ceiling
EmbeddedOffByOne(patch) ==
    IF TextLen(patch) > Ceiling THEN Prefix(patch, Ceiling + 1) \o Marker ELSE patch

\* the diff text of one file as it goes into the prompt
Embedded(patch) ==
    IF TextLen(patch) > Ceiling THEN Prefix(patch, Ceiling) \o Marker ELSE patch

\* the first review run or deep review after the rotators were built
FirstUse == \A p \in Providers : ncalls[p] = 0

\* run_multi_agent_review(files): the call, up to the head of the loop over files
run_multi_agent_review(f) ==
    /\ Enter(f, "review", "files")
    /\ FirstUse
    /\ UNCHANGED <<push, GROK_KEYS, GEMINI_KEYS, current_index, ncalls, last_key>>

\* the environment is consulted only by the calls that are made
NotFetched == [kind |-> "none", status_code |-> 0, text |-> EmptyText]
GitNotRun == [returncode |-> 0 - 1, content |-> EmptyText]
PylintNotRun == [valid |-> FALSE, errors |-> << >>]

\* one iteration of the loop over files, for a file whose patch is one of patches and
\* whose raw_url is answered by one of fetches
review_file_from(f, patches, fetches) ==
    /\ pc[f] = "files"
    /\ Len(diff_context[f]) < MaxFiles
    /\ \E filename \in Filenames, patch \in patches, raw_url \in {"", "url"} :
       \E fetched \in IF raw_url # "" THEN fetches ELSE {NotFetched} :
         LET original_content == IF raw_url # "" THEN fetch_raw_file(fetched) ELSE EmptyText
             git == IF patch.is_none THEN GitNotRun
                    ELSE git_apply(original_content, patch.v)
             reconstructed == apply_patch_to_content(original_content, patch, git)
         IN  \E pylint \in IF TruthyOpt(reconstructed) /\ filename[Len(filename)] = ".py"
                            THEN PylintOutcomes ELSE {PylintNotRun} :
               LET lint_issues == IF TruthyOpt(reconstructed)
                                  THEN run_linter(reconstructed.v, filename, pylint)
                                  ELSE << >>
               IN  /\ all_issues' = [all_issues EXCEPT ![f] = @ \o lint_issues]
                   /\ last_file' = [last_file EXCEPT ![f] =
                          [filename |-> filename, patch |-> patch, raw_url |-> raw_url,
                           original |-> original_content, applied |-> TRUE,
                           reconstructed |-> reconstructed,
                           linted |-> TruthyOpt(reconstructed),
                           lint_issues |-> lint_issues]]
                   /\ IF patch.is_none
                      THEN \* len(None) raises TypeError outside any try block
                           /\ pc' = [pc EXCEPT ![f] = "raised"]
                           /\ error' = [error EXCEPT ![f] = TypeError]
                           /\ UNCHANGED diff_context
                      ELSE /\ diff_context' = [diff_context EXCEPT ![f] =
                                  Append(@, [filename |-> filename, patch |-> patch.v,
                                             diff |-> Embedded(patch.v)])]
                           /\ UNCHANGED <<push, pc, error>>
    /\ UNCHANGED <<push, orch_vars_but_pc, report, chat, frame>>

\* one iteration of the loop over files in a review run
review_file(f) == review_file_from(f, PatchValues, FetchOutcomes)

\* the end of the loop: the prompt is composed from diff_context, which is not read
\* again, and generate_content is called
review_generate(f) ==
    /\ pc[f] = "files"
    /\ Begin(f, "review", DefaultRetries)
    /\ diff_context' = [diff_context EXCEPT ![f] = << >>]
    /\ last_file' = [last_file EXCEPT ![f] = NoFile]
    /\ UNCHANGED <<push, GROK_KEYS, GEMINI_KEYS, current_index, ncalls, last_key, op,
                   all_issues, report, error, chat, frame>>

\* str(e)
StrOf(e) == <<Chunk(e.type, 1)>>

JSONDecodeError == [type |-> "JSONDecodeError", args |-> << >>]
AttributeError == [type |-> "AttributeError", args |-> << >>]

\* the dict of the except branch of run_multi_agent_review; its Issue has the keys
\* category, severity and message only
ErrorReport(e) ==
    DictReport([summary |-> JStr("AI Error"),
                issues |-> JList(<<Issue("str", SystemCat, "High", << >>, 0, StrOf(e), "", "system")>>),
                recommendation |-> JStr("Manual Review Required")])

\* mutant: the category is matched as it is written
CatOfCased(issue) == IF issue.cat_kind = "str" THEN issue.category ELSE << >>

\* issue.get("category", "").lower()
CatOf(issue) == Lower(IF issue.cat_kind = "str" THEN issue.category ELSE << >>)

\* mutant: the security test is an `if` of its own
GoesSecurityIf(issue) == AnyIn(SecurityWords, CatOf(issue))

\* mutant: the linter test looks for "in"
GoesLinterShortWord(issue) == Contains(CatOf(issue), SubSeq(LintWord, 2, 3))

\* the branches of the if / elif chain of the loop over all_issues
GoesLinter(issue) == Contains(CatOf(issue), LintWord)
GoesSecurity(issue) == ~Contains(CatOf(issue), LintWord) /\ AnyIn(SecurityWords, CatOf(issue))
GoesPerformance(issue) ==
    /\ ~Contains(CatOf(issue), LintWord)
    /\ ~AnyIn(SecurityWords, CatOf(issue))
    /\ AnyIn(PerformanceWords, CatOf(issue))
GoesIssues(issue) ==
    /\ ~Contains(CatOf(issue), LintWord)
    /\ ~AnyIn(SecurityWords, CatOf(issue))
    /\ ~AnyIn(PerformanceWords, CatOf(issue))

\* categorized_result after the loop over issues
Categorized(result, issues) ==
    DictReport([summary |-> Get(result, "summary", JStr("Analysis complete.")),
                recommendation |-> Get(result, "recommendation", JStr("Review")),
                linter |-> JList(SelectSeq(issues, GoesLinter)),
                security |-> JList(SelectSeq(issues, GoesSecurity)),
                performance |-> JList(SelectSeq(issues, GoesPerformance)),
                issues |-> JList(SelectSeq(issues, GoesIssues))])

\* mutant: the except branch lets the exception go
ReviewOutcomeRaise(issues, text, e) ==
    IF e.type # "none" THEN [report |-> NoReport, all |-> issues, error |-> e]
    ELSE [report |-> ErrorReport(JSONDecodeError), all |-> issues, error |-> NoExc]

\* the try block of run_multi_agent_review from the return of generate_content on:
\* the report returned and all_issues at that point.  generate_content raised e, or
\* returned text
ReviewOutcome(issues, text, e) ==
    IF e.type # "none" THEN [report |-> ErrorReport(e), all |-> issues, error |-> NoExc]
    ELSE LET result == json_loads(text)
             found == Get(result.d, "issues", JList(<< >>))
         IN  IF ~result.ok
             THEN [report |-> ErrorReport(JSONDecodeError), all |-> issues, error |-> NoExc]
             ELSE IF result.kind # "dict"
             THEN [report |-> ErrorReport(AttributeError), all |-> issues, error |-> NoExc]
             ELSE IF found.t # "list"
             THEN [report |-> ErrorReport(TypeError), all |-> issues, error |-> NoExc]
             ELSE IF \E i \in DOMAIN (issues \o found.l) : (issues \o found.l)[i].cat_kind = "null"
             THEN [report |-> ErrorReport(AttributeError), all |-> issues \o found.l,
                   error |-> NoExc]
             ELSE [report |-> Categorized(result.d, issues \o found.l),
                   all |-> issues \o found.l, error |-> NoExc]

\* run_multi_agent_review from the return of generate_content to its own return
review_result(f) ==
    /\ pc[f] = "review_result"
    /\ LET out == ReviewOutcome(all_issues[f], ret[f], exc[f])
       IN  /\ report' = [report EXCEPT ![f] = out.report]
           /\ all_issues' = [all_issues EXCEPT ![f] = out.all]
           /\ error' = [error EXCEPT ![f] = out.error]
           /\ pc' = [pc EXCEPT ![f] = IF out.error.type = "none" THEN "returned" ELSE "raised"]
    /\ UNCHANGED <<push, orch_vars_but_pc, diff_context, last_file, chat, frame>>

(***************************************************************************)
(* analyze_full_code.                                                      *)
(***************************************************************************)
\* the dict of the outer except branch of analyze_full_code
DeepErrorReport(e) ==
    DictReport([summary |-> JStr("AI Error"),
                issues |-> JList(<<Issue("str", SystemCat, "High", << >>, 0, StrOf(e), "", "system")>>),
                recommendation |-> JStr("Error")])

\* the dict returned when the response holds no "{...}" span
FallbackReport(text) ==
    DictReport([summary |-> JStr("Analysis completed (non-JSON response)"),
                issues |-> JList(<<Issue("str", AIResponseCat, "Medium", << >>, 0,
                                         Prefix(text, 500), "Review the full AI response",
                                         "system")>>),
                recommendation |-> JStr("Review")])

\* analyze_full_code from the return of generate_content on
DeepOutcome(text, e) ==
    IF e.type # "none" THEN DeepErrorReport(e)
    ELSE LET result == json_loads(text)
             json_match_ == json_match(text)
             salvaged == json_loads(json_match_.group)
         IN  IF result.ok THEN [kind |-> result.kind, d |-> result.d]
             ELSE IF json_match_.found
             THEN IF salvaged.ok THEN [kind |-> salvaged.kind, d |-> salvaged.d]
                  ELSE DeepErrorReport(JSONDecodeError)
             ELSE FallbackReport(text)

\* analyze_full_code(code, filename): the call, up to the call of generate_content
analyze_full_code(f) ==
    /\ Idle(f)
    /\ FirstUse
    /\ op' = [op EXCEPT ![f] = "deep"]
    /\ Begin(f, "deep", DefaultRetries)
    /\ ResetReview(f)
    /\ ResetChat(f)
    /\ UNCHANGED frame
    /\ UNCHANGED <<push, GROK_KEYS, GEMINI_KEYS, current_index, ncalls, last_key>>

\* analyze_full_code from the return of generate_content to its own return
deep_result(f) ==
    /\ pc[f] = "deep_result"
    /\ report' = [report EXCEPT ![f] = DeepOutcome(ret[f], exc[f])]
    /\ pc' = [pc EXCEPT ![f] = "returned"]
    /\ UNCHANGED <<push, orch_vars_but_pc, diff_context, all_issues, last_file, error, chat, frame>>

\* the configurations followed for the pipeline: each provider has no key or one key,
\* which yields every result generate can have (a text from either provider, a failure)
InitReview ==
    /\ Init
    /\ GROK_KEYS \in {<< >>, SubSeq(GrokSlots, 1, 1)}
    /\ GEMINI_KEYS \in {<< >>, SubSeq(GeminiSlots, 1, 1)}

NextReview ==
    \E f \in {MainFlow} :
        \/ run_multi_agent_review(f)
        \/ review_file(f)
        \/ review_generate(f)
        \/ try_grok(f)
        \/ try_gemini(f)
        \/ review_result(f)
        \/ analyze_full_code(f)
        \/ deep_result(f)

SpecReview == InitReview /\ [][NextReview]_vars

(***************************************************************************)
(* The review pipeline on files with hunks: reconstruction by git apply.   *)
(***************************************************************************)
\* one iteration of the loop over files, for the patches and files of the hunks
reconstruct_file(f) == review_file_from(f, HunkPatchValues, HunkFetchOutcomes)

\* no provider key is set: generate raises at once
InitPatch ==
    /\ Init
    /\ GROK_KEYS = << >>
    /\ GEMINI_KEYS = << >>

NextPatch ==
    \E f \in {MainFlow} :
        \/ run_multi_agent_review(f)
        \/ reconstruct_file(f)
        \/ review_generate(f)
        \/ review_result(f)

SpecPatch == InitPatch /\ [][NextPatch]_vars

(***************************************************************************)
(* chat_with_agent: the keyword classifiers, the commit message and the    *)
(* three paths (push, code change, plain chat).  Messages and keywords are *)
(* tuples of characters; the file name and the code are strings.           *)
(***************************************************************************)
push_keywords == {
    <<"p", "u", "s", "h">>,
    <<"c", "o", "m", "m", "i", "t">>,
    <<"s", "a", "v", "e">>,
    <<"d", "e", "p", "l", "o", "y">>,
    <<"p", "u", "b", "l", "i", "s", "h">>,
    <<"p", "u", "s", "h", " ", "i", "t">>,
    <<"c", "o", "m", "m", "i", "t", " ", "i", "t">>,
    <<"c", "o", "m", "m", "i", "t", " ", "t", "h", "i", "s">>,
    <<"p", "u", "s", "h", " ", "t", "h", "i", "s">>,
    <<"s", "a", "v", "e", " ", "t", "o", " ", "b", "r", "a", "n", "c", "h">>,
    <<"s", "a", "v", "e", " ", "c", "h", "a", "n", "g", "e", "s">>,
    <<"p", "u", "s", "h", " ", "t", "o", " ", "b", "r", "a", "n", "c", "h">>,
    <<"c", "o", "m", "m", "i", "t", " ", "t", "o", " ", "b", "r", "a", "n", "c", "h">>,
    <<"p", "u", "s", "h", " ", "c", "o", "d", "e">>,
    <<"c", "o", "m", "m", "i", "t", " ", "c", "o", "d", "e">> }

change_keywords == {
    <<"c", "h", "a", "n", "g", "e">>,
    <<"m", "o", "d", "i", "f", "y">>,
    <<"u", "p", "d", "a", "t", "e">>,
    <<"f", "i", "x">>,
    <<"a", "d", "d">>,
    <<"r", "e", "m", "o", "v", "e">>,
    <<"d", "e", "l", "e", "t", "e">>,
    <<"r", "e", "p", "l", "a", "c", "e">>,
    <<"r", "e", "f", "a", "c", "t", "o", "r">>,
    <<"i", "m", "p", "r", "o", "v", "e">>,
    <<"o", "p", "t", "i", "m", "i", "z", "e">>,
    <<"c", "o", "r", "r", "e", "c", "t">>,
    <<"m", "a", "k", "e", " ", "i", "t">>,
    <<"c", "a", "n", " ", "y", "o", "u">>,
    <<"p", "l", "e", "a", "s", "e">>,
    <<"e", "d", "i", "t">>,
    <<"a", "d", "j", "u", "s", "t">>,
    <<"t", "w", "e", "a", "k">>,
    <<"i", "n", "s", "e", "r", "t">>,
    <<"a", "p", "p", "e", "n", "d">>,
    <<"p", "r", "e", "p", "e", "n", "d">>,
    <<"r", "e", "n", "a", "m", "e">> }

code_keywords == {
    <<"c", "o", "d", "e">>,
    <<"f", "u", "n", "c", "t", "i", "o", "n">>,
    <<"c", "l", "a", "s", "s">>,
    <<"v", "a", "r", "i", "a", "b", "l", "e">>,
    <<"l", "i", "n", "e">>,
    <<"f", "i", "l", "e">>,
    <<"h", "1">>,
    <<"h", "2">>,
    <<"d", "i", "v">>,
    <<"b", "u", "t", "t", "o", "n">>,
    <<"i", "m", "p", "o", "r", "t">>,
    <<"d", "e", "f">>,
    <<"c", "o", "n", "s", "t">>,
    <<"l", "e", "t">> }

PleaseExplain == <<"P", "l", "e", "a", "s", "e", " ", "e", "x", "p", "l", "a", "i", "n">>

AddAnH1 == <<"a", "d", "d", " ", "a", "n", " ", "h", "1", " ", "t", "a", "g", " ", "w", "i", "t", "h", " ", "t", "i", "t", "l", "e", " ", "'", "h", "e", "l", "l", "o", "'">>

CommitFixRefactor == <<"c", "o", "m", "m", "i", "t", " ", "t", "h", "e", " ", "f", "i", "x", " ", "a", "n", "d", " ", "r", "e", "f", "a", "c", "t", "o", "r", " ", "t", "h", "e", " ", "c", "o", "d", "e">>

\* the messages of the requests: with and without push, action and code keywords,
\* in lower and upper case, with keywords inside longer words, and the test's message
Messages == {
    <<"h", "e", "l", "l", "o", " ", "t", "h", "e", "r", "e">>,
    <<"W", "h", "a", "t", " ", "i", "s", " ", "t", "h", "i", "s", "?">>,
    PleaseExplain,
    <<"w", "h", "i", "c", "h", " ", "F", "I", "L", "E", " ", "i", "s", " ", "t", "h", "i", "s">>,
    <<"f", "i", "x", " ", "t", "h", "e", " ", "f", "u", "n", "c", "t", "i", "o", "n">>,
    AddAnH1,
    <<"P", "u", "s", "h", " ", "i", "t">>,
    CommitFixRefactor,
    <<"s", "a", "v", "e", " ", "t", "h", "e", " ", "n", "e", "w", " ", "b", "u", "t", "t", "o", "n">>,
    <<"d", "e", "p", "l", "o", "y", " ", "t", "h", "e", " ", "i", "m", "p", "r", "o", "v", "e", "d", " ", "r", "e", "f", "a", "c", "t", "o", "r">>,
    <<"p", "u", "b", "l", "i", "s", "h", " ", "a", "f", "t", "e", "r", " ", "y", "o", "u", " ", "d", "e", "l", "e", "t", "e", " ", "t", "h", "e", " ", "r", "e", "f", "a", "c", "t", "o", "r", "e", "d", " ", "p", "a", "r", "t">>,
    <<"C", "O", "M", "M", "I", "T", ":", " ", "r", "e", "m", "o", "v", "e", "d", " ", "l", "o", "g", "s">>,
    <<"p", "u", "s", "h", "e", "d">>,
    <<"t", "h", "e", " ", "p", "r", "e", "f", "i", "x", " ", "m", "e", "n", "u">> }

FixWord == <<"f", "i", "x">>

AddWord == <<"a", "d", "d">>

NewWord == <<"n", "e", "w">>

UpdateWord == <<"u", "p", "d", "a", "t", "e">>

ImproveWord == <<"i", "m", "p", "r", "o", "v", "e">>

RefactorWord == <<"r", "e", "f", "a", "c", "t", "o", "r">>

RemoveWord == <<"r", "e", "m", "o", "v", "e">>

DeleteWord == <<"d", "e", "l", "e", "t", "e">>

\* message -> has a push keyword
_detect_push_intent(message) == AnyIn(push_keywords, Lower(message))

\* mutant: an action keyword and a code keyword are both needed
_detect_code_change_intent_both(message) ==
    AnyIn(change_keywords, Lower(message)) /\ AnyIn(code_keywords, Lower(message))

\* message -> has_change_keyword or has_code_keyword
_detect_code_change_intent(message) ==
    AnyIn(change_keywords, Lower(message)) \/ AnyIn(code_keywords, Lower(message))

\* an f-string: its literal part and the values put into it
Formatted(template, parts) == [template |-> template, parts |-> parts]

\* mutant: the refactor rule is tried before the fix rule
_generate_commit_message_refactor_first(user_message, filename) ==
    LET message_lower == Lower(user_message) IN
    IF Contains(message_lower, RefactorWord) THEN Formatted("refactor: Refactor {filename}", <<filename>>)
    ELSE IF Contains(message_lower, FixWord) THEN Formatted("fix: Updates to {filename}", <<filename>>)
    ELSE IF Contains(message_lower, AddWord) \/ Contains(message_lower, NewWord)
    THEN Formatted("feat: Add changes to {filename}", <<filename>>)
    ELSE IF Contains(message_lower, UpdateWord) \/ Contains(message_lower, ImproveWord)
    THEN Formatted("chore: Update {filename}", <<filename>>)
    ELSE IF Contains(message_lower, RemoveWord) \/ Contains(message_lower, DeleteWord)
    THEN Formatted("chore: Remove code from {filename}", <<filename>>)
    ELSE Formatted("chore: AI-assisted changes to {filename}", <<filename>>)

_generate_commit_message(user_message, filename) ==
    LET message_lower == Lower(user_message) IN
    IF Contains(message_lower, FixWord) THEN Formatted("fix: Updates to {filename}", <<filename>>)
    ELSE IF Contains(message_lower, AddWord) \/ Contains(message_lower, NewWord)
    THEN Formatted("feat: Add changes to {filename}", <<filename>>)
    ELSE IF Contains(message_lower, UpdateWord) \/ Contains(message_lower, ImproveWord)
    THEN Formatted("chore: Update {filename}", <<filename>>)
    ELSE IF Contains(message_lower, RefactorWord) THEN Formatted("refactor: Refactor {filename}", <<filename>>)
    ELSE IF Contains(message_lower, RemoveWord) \/ Contains(message_lower, DeleteWord)
    THEN Formatted("chore: Remove code from {filename}", <<filename>>)
    ELSE Formatted("chore: AI-assisted changes to {filename}", <<filename>>)

\* the contexts of a chat request: the payload of the test, which has no current
\* file, and payloads whose current file has or lacks a name and a content
HtmlCode == "<html><body></body></html>"
IndexHtml == "index.html"
TestContext == ("code" :> HtmlCode) @@ ("filename" :> IndexHtml)
CurrentFiles ==
    {EmptyDict}
        \cup {("filename" :> n) @@ ("content" :> c) : n \in {"", IndexHtml}, c \in {"", HtmlCode}}
Contexts == {TestContext} \cup {"current_file" :> cf : cf \in CurrentFiles}

\* the dict chat_with_agent returns on its push path
PushReturn(message, filename, code) ==
    IF code = "" \/ filename = ""
    THEN ("response" :> Formatted("No code to push. Please make sure you have a file open with changes.", << >>))
             @@ ("push_requested" :> FALSE)
    ELSE ("response" :> Formatted("Ready to Push ... commit {filename} ... {commit_msg} ... Initiating push...",
                                  <<filename, _generate_commit_message(message, filename)>>))
             @@ ("push_requested" :> TRUE)
             @@ ("commit_message" :> _generate_commit_message(message, filename))
             @@ ("code_modified" :> FALSE)

\* the dict the plain chat path returns after generate_content returned text or raised e
ChatReturn(text, e) ==
    ("response" :> IF e.type = "none" THEN Formatted("{response_text}", <<text>>)
                   ELSE Formatted("Error: {str(e)}", <<StrOf(e)>>))
        @@ ("code_modified" :> FALSE)
        @@ ("push_requested" :> FALSE)

\* re.findall(r'```(?:\w+)?\n(.*?)```', text, re.DOTALL): the fenced blocks of the text
code_blocks(text) == {i \in DOMAIN text : text[i].sym = "fence"}

\* the dict _apply_user_requested_changes returns after generate_content returned
\* text or raised e
ApplyReturn(text, e, original_code, filename) ==
    LET result == json_loads(text) IN
    IF e.type # "none"
    THEN ("response" :> Formatted("Error applying changes: {str(e)}", <<StrOf(e)>>))
             @@ ("code_modified" :> FALSE)
    ELSE IF ~result.ok
    THEN IF code_blocks(text) # {}
         THEN ("response" :> Formatted("Changes Applied (extracted from response)", << >>))
                  @@ ("code_modified" :> TRUE)
                  @@ ("modified_code" :> JStr(text[MinOf(code_blocks(text))].val.s))
                  @@ ("filename" :> filename)
         ELSE ("response" :> Formatted("Could not parse the AI response. Here's what I got: {response_text}",
                                       <<text>>))
                  @@ ("code_modified" :> FALSE)
    ELSE IF result.kind # "dict"
    THEN ("response" :> Formatted("Error applying changes: {str(e)}", <<StrOf(AttributeError)>>))
             @@ ("code_modified" :> FALSE)
    ELSE ("response" :> Formatted("Changes Applied {explanation} Changes: {changes_summary}",
                                  <<Get(result.d, "explanation", JStr("")),
                                    Get(result.d, "changes_summary", JStr(""))>>))
             @@ ("code_modified" :> TRUE)
             @@ ("modified_code" :> Get(result.d, "modified_code", JStr(original_code)))
             @@ ("filename" :> filename)

\* mutant: the code-change check comes before the push check
ChatPathChangeFirst(message, original_code) ==
    IF _detect_code_change_intent(message) /\ original_code # ""
    THEN "_apply_user_requested_changes"
    ELSE IF _detect_push_intent(message) THEN "push"
    ELSE "generate_content"

\* the path chat_with_agent takes: what it goes on to call
ChatPath(message, original_code) ==
    IF _detect_push_intent(message) THEN "push"
    ELSE IF _detect_code_change_intent(message) /\ original_code # ""
    THEN "_apply_user_requested_changes"
    ELSE "generate_content"

\* current_file = context.get("current_file", {}) and its filename and content
current_file(context) == Get(context, "current_file", EmptyDict)
filename_of(context) == Get(current_file(context), "filename", "")
content_of(context) == Get(current_file(context), "content", "")

\* chat_with_agent(message, context, history), up to its return on the push path or
\* to its call of generate_content on the other two
chat_with_agent(f) ==
    /\ Idle(f)
    /\ FirstUse
    /\ \E message \in Messages, context \in Contexts :
         LET path == ChatPath(message, content_of(context))
         IN  /\ op' = [op EXCEPT ![f] = "chat"]
             /\ IF path = "push"
                THEN /\ pc' = [pc EXCEPT ![f] = "returned"]
                     /\ max_retries' = [max_retries EXCEPT ![f] = 0]
                     /\ retry' = [retry EXCEPT ![f] = 0]
                     /\ attempt' = [attempt EXCEPT ![f] = 0]
                     /\ log' = [log EXCEPT ![f] = << >>]
                     /\ ret' = [ret EXCEPT ![f] = EmptyText]
                     /\ exc' = [exc EXCEPT ![f] = NoExc]
                     /\ chat' = [chat EXCEPT ![f] =
                            [message |-> message, context |-> context, called |-> "none",
                             returned |-> PushReturn(message, filename_of(context),
                                                     content_of(context))]]
                ELSE /\ Begin(f, "chat", DefaultRetries)
                     /\ chat' = [chat EXCEPT ![f] =
                            [message |-> message, context |-> context, called |-> path,
                             returned |-> EmptyDict]]
    /\ ResetReview(f)
    /\ UNCHANGED <<push, GROK_KEYS, GEMINI_KEYS, current_index, ncalls, last_key, frame>>

\* chat_with_agent from the return of generate_content to its own return
chat_result(f) ==
    /\ pc[f] = "chat_result"
    /\ chat' = [chat EXCEPT ![f].returned =
           IF chat[f].called = "_apply_user_requested_changes"
           THEN ApplyReturn(ret[f], exc[f], content_of(chat[f].context),
                            filename_of(chat[f].context))
           ELSE ChatReturn(ret[f], exc[f])]
    /\ pc' = [pc EXCEPT ![f] = "returned"]
    /\ UNCHANGED <<push, orch_vars_but_pc, review_vars, frame>>

InitChat ==
    /\ Init
    /\ GROK_KEYS \in {<< >>, SubSeq(GrokSlots, 1, 1)}
    /\ GEMINI_KEYS \in {<< >>, SubSeq(GeminiSlots, 1, 1)}

NextChat ==
    \E f \in {MainFlow} :
        \/ chat_with_agent(f)
        \/ try_grok(f)
        \/ try_gemini(f)
        \/ chat_result(f)

SpecChat == InitChat /\ [][NextChat]_vars

(***************************************************************************)
(* KeyRotator.get_next called from several threads.  The method takes no   *)
(* lock, so another thread can run between its statements and between the  *)
(* load and the store of the statement that moves the cursor.              *)
(***************************************************************************)
\* the get_next calls under way on rotator p
Inside(p) == {f \in Flows : frame[f].rotator = p}

\* the call, the test of the pool and, on an empty pool, the return of None
get_next_call(f, p) ==
    /\ Idle(f)
    /\ ncalls[p] + Cardinality(Inside(p)) < MaxCalls
    /\ op' = [op EXCEPT ![f] = "get_next"]
    /\ IF keys_of(p) = << >>
       THEN /\ pc' = [pc EXCEPT ![f] = "returned"]
            /\ last_key' = [last_key EXCEPT ![p] = None]
            /\ ncalls' = [ncalls EXCEPT ![p] = @ + 1]
            /\ UNCHANGED frame
       ELSE /\ pc' = [pc EXCEPT ![f] = "get_next_key"]
            /\ frame' = [frame EXCEPT ![f] = [rotator |-> p, key |-> None, index |-> 0]]
            /\ UNCHANGED <<push, last_key, ncalls>>
    /\ UNCHANGED <<push, GROK_KEYS, GEMINI_KEYS, current_index, max_retries, retry, attempt,
                   log, ret, exc, review_vars, chat>>

\* key = self.keys[self.current_index]
get_next_read_key(f) ==
    /\ pc[f] = "get_next_key"
    /\ frame' = [frame EXCEPT ![f].key =
                     get_next_key(keys_of(frame[f].rotator), current_index[frame[f].rotator])]
    /\ pc' = [pc EXCEPT ![f] = "get_next_load"]
    /\ UNCHANGED <<push, orch_vars_but_pc, review_vars, chat>>

\* the right-hand side of self.current_index = (self.current_index + 1) % len(self.keys)
get_next_load_index(f) ==
    /\ pc[f] = "get_next_load"
    /\ frame' = [frame EXCEPT ![f].index =
                     get_next_index(keys_of(frame[f].rotator), current_index[frame[f].rotator])]
    /\ pc' = [pc EXCEPT ![f] = "get_next_store"]
    /\ UNCHANGED <<push, orch_vars_but_pc, review_vars, chat>>

\* the store into self.current_index, and the return of key
get_next_store_index(f) ==
    /\ pc[f] = "get_next_store"
    /\ current_index' = [current_index EXCEPT ![frame[f].rotator] = frame[f].index]
    /\ last_key' = [last_key EXCEPT ![frame[f].rotator] = frame[f].key]
    /\ ncalls' = [ncalls EXCEPT ![frame[f].rotator] = @ + 1]
    /\ frame' = [frame EXCEPT ![f] = NoFrame]
    /\ pc' = [pc EXCEPT ![f] = "returned"]
    /\ UNCHANGED <<push, GROK_KEYS, GEMINI_KEYS, op, max_retries, retry, attempt, log, ret, exc,
                   review_vars, chat>>

NextThreads ==
    \E f \in Flows :
        \/ \E p \in Providers : get_next_call(f, p)
        \/ get_next_read_key(f)
        \/ get_next_load_index(f)
        \/ get_next_store_index(f)

SpecThreads == Init /\ [][NextThreads]_vars

(***************************************************************************)
(* Claims about the rotator and the orchestrator (specification Spec).     *)
(***************************************************************************)
GenerateCall(f) == op[f] = "generate"
GenerateOver(f) == GenerateCall(f) /\ pc[f] \in {"returned", "raised"}

\* the entries of log l made on provider p in cycle r
Attempts(l, p, r) == SelectSeq(l, LAMBDA e : e.provider = p /\ e.retry = r)

\* C1: counting get_next calls from a cursor at 0, the (k*N + i)-th call (0-indexed)
\* on a pool of N >= 1 keys returns keys[i]
C1_RoundRobin ==
    \A p \in Providers :
        (ncalls[p] > 0 /\ keys_of(p) # << >>)
            => last_key[p] = keys_of(p)[((ncalls[p] - 1) % Len(keys_of(p))) + 1]

\* C1 witness: the 2N-th call on a pool of N = 2 keys has returned the last key
C1_Witness ==
    /\ Len(GROK_KEYS) = 2
    /\ ncalls["Grok"] = 2 * Len(GROK_KEYS)
    /\ last_key["Grok"] = GROK_KEYS[2]

\* C2 (the claim as stated): generate raises only when, in every one of its
\* max_retries cycles, every configured credential was attempted and failed
C2_RaiseOnlyAfterAllAttempted ==
    \A f \in Flows :
        (GenerateCall(f) /\ pc[f] = "raised")
            => \A p \in Providers : \A r \in 0 .. max_retries[f] - 1 :
                 \A i \in 1 .. Len(keys_of(p)) :
                    \E j \in 1 .. Len(log[f]) :
                        /\ log[f][j].provider = p
                        /\ log[f][j].retry = r
                        /\ log[f][j].key = keys_of(p)[i]
                        /\ log[f][j].kind # "text"

\* the failover scenario of C3: two Grok keys, one Gemini key, and the call's first
\* two provider calls (the Grok ones) raised
FailoverScenario(f) ==
    /\ GenerateCall(f)
    /\ Len(GROK_KEYS) = 2
    /\ Len(GEMINI_KEYS) = 1
    /\ Len(log[f]) >= 2
    /\ log[f][1].kind = "error"
    /\ log[f][2].kind = "error"

\* C3: in the failover scenario the two failed attempts used the two Grok keys, the
\* very next step of the call is the Gemini attempt, and when that attempt yields a
\* text generate returns this text after exactly 2 Grok and 1 Gemini attempts
C3_Failover ==
    \A f \in Flows :
        FailoverScenario(f) =>
            /\ {log[f][1].provider, log[f][2].provider} = {"Grok"}
            /\ {log[f][1].key, log[f][2].key} = {GROK_KEYS[1], GROK_KEYS[2]}
            /\ Len(log[f]) = 2 => pc[f] = "gemini"
            /\ (Len(log[f]) >= 3 /\ log[f][3].kind = "text") =>
                  /\ pc[f] = "returned"
                  /\ ret[f] = log[f][3].text
                  /\ Len(log[f]) = 3
                  /\ log[f][3].provider = "Gemini"
                  /\ log[f][3].key = GEMINI_KEYS[1]

\* C3 witness: the scenario has run to its end
C3_Witness ==
    /\ FailoverScenario(MainFlow)
    /\ pc[MainFlow] = "returned"
    /\ ret[MainFlow] = OtherText
    /\ Len(Attempts(log[MainFlow], "Grok", 0)) = 2
    /\ Len(Attempts(log[MainFlow], "Gemini", 0)) = 1

\* every provider call of the call of flow f so far raised
AllFailed(f) == \A j \in 1 .. Len(log[f]) : log[f][j].kind = "error"

\* C4: a generate call whose provider calls all fail never returns a text; once each
\* credential has failed in each cycle it has raised, and what it raised carries the
\* two configured pool sizes and the number of retry cycles
C4_Exhaustion ==
    \A f \in Flows :
        (GenerateCall(f) /\ AllFailed(f)) =>
            /\ pc[f] # "returned"
            /\ ret[f] = EmptyText
            /\ Len(log[f]) = max_retries[f] * (Len(GROK_KEYS) + Len(GEMINI_KEYS)) =>
                  /\ pc[f] = "raised"
                  /\ exc[f].type = "Exception"
                  /\ exc[f].args = <<Len(GROK_KEYS), Len(GEMINI_KEYS), max_retries[f]>>

\* C4 witness: two cycles over 2 + 1 credentials, all failed, and generate has raised
C4_Witness ==
    /\ GenerateCall(MainFlow)
    /\ AllFailed(MainFlow)
    /\ Len(GROK_KEYS) = 2
    /\ Len(GEMINI_KEYS) = 1
    /\ max_retries[MainFlow] = 2
    /\ Len(log[MainFlow]) = 6
    /\ pc[MainFlow] = "raised"

\* two attempts of one call used the same credential
SameCredential(a, b) == a.provider = b.provider /\ a.key = b.key

\* the number of attempts in a row on the credential of attempt j, up to and with j
RECURSIVE TriesEndingAt(_, _)
TriesEndingAt(l, j) ==
    IF j > 1 /\ SameCredential(l[j - 1], l[j]) /\ l[j - 1].retry = l[j].retry
    THEN 1 + TriesEndingAt(l, j - 1)
    ELSE 1

\* C15: within a generate call, an attempt that failed with a quota error is followed
\* by another attempt on the same credential until that credential has been tried 3
\* times in a row, and an attempt that failed with any other error is not followed in
\* its cycle by an attempt on the same credential
C15_QuotaRetriedOnSameCredential ==
    \A f \in Flows :
        GenerateCall(f) =>
            \A j \in 1 .. Len(log[f]) - 1 :
                /\ (log[f][j].raised = "quota" /\ TriesEndingAt(log[f], j) < 3)
                       => (/\ SameCredential(log[f][j], log[f][j + 1])
                           /\ log[f][j + 1].retry = log[f][j].retry)
                /\ (log[f][j].raised = "other" /\ log[f][j + 1].retry = log[f][j].retry)
                       => ~SameCredential(log[f][j], log[f][j + 1])

\* the position of credential k in the pool
IndexOf(keys, k) == CHOOSE i \in DOMAIN keys : keys[i] = k

\* attempt j of the attempts l is the first one of its cycle
OpensCycle(l, j) == j = 1 \/ l[j - 1].retry # l[j].retry

\* the attempts of l made on provider p, in order
AttemptsOn(l, p) == SelectSeq(l, LAMBDA e : e.provider = p)

\* successive attempts s of one provider use successive credentials of its pool
InRotation(s, keys) ==
    \A j \in 1 .. Len(s) - 1 :
        IndexOf(keys, s[j + 1].key) = (IndexOf(keys, s[j].key) % Len(keys)) + 1

ReviewRun(f) == op[f] = "review"
ReviewOver(f) == ReviewRun(f) /\ pc[f] \in {"returned", "raised"}

SixFields == {"summary", "recommendation", "linter", "security", "performance", "issues"}
Buckets == {"linter", "security", "performance", "issues"}

\* the report of flow f is one the categorizer produced
CategorizedReport(f) ==
    /\ ReviewRun(f)
    /\ pc[f] = "returned"
    /\ report[f].kind = "dict"
    /\ DOMAIN report[f].d = SixFields

\* C5 (the claim as stated): every review run that is over has returned, without an
\* exception reaching its caller, a report with the six fields summary,
\* recommendation, linter, security, performance and issues
C5_AlwaysSixFieldReport ==
    \A f \in Flows :
        ReviewOver(f) =>
            /\ pc[f] = "returned"
            /\ error[f] = NoExc
            /\ report[f].kind = "dict"
            /\ DOMAIN report[f].d = SixFields

\* C6: a review run whose generate_content call raised the all-providers-failed
\* Exception has not raised: it returned a report whose summary is "AI Error" and
\* whose recommendation is "Manual Review Required"
C6_GenerationFailureReport ==
    \A f \in Flows :
        (ReviewOver(f) /\ exc[f].type = "Exception") =>
            /\ pc[f] = "returned"
            /\ error[f] = NoExc
            /\ report[f].kind = "dict"
            /\ Get(report[f].d, "summary", JNone) = JStr("AI Error")
            /\ Get(report[f].d, "recommendation", JNone) = JStr("Manual Review Required")

\* C6 witness: a run with lint findings whose only credential failed has returned
C6_Witness ==
    /\ ReviewRun(MainFlow)
    /\ pc[MainFlow] = "returned"
    /\ exc[MainFlow] = GenerationFailed(DefaultRetries)
    /\ Len(GROK_KEYS) + Len(GEMINI_KEYS) >= 1
    /\ Len(log[MainFlow]) >= 1
    /\ all_issues[MainFlow] # << >>

\* how many entries of the sequence s equal x
Count(s, x) == Cardinality({i \in DOMAIN s : s[i] = x})

\* the bucket the substring rule names for category cat, by first match
FirstMatch(cat) ==
    IF Contains(Lower(cat), LintWord) THEN "linter"
    ELSE IF \E w \in SecurityWords : Contains(Lower(cat), w) THEN "security"
    ELSE IF \E w \in PerformanceWords : Contains(Lower(cat), w) THEN "performance"
    ELSE "issues"

\* the bucket named by the rule for an Issue: an Issue without category has category ""
RuleBucket(issue) == FirstMatch(IF issue.cat_kind = "str" THEN issue.category ELSE << >>)

\* C7: in every report of the categorizer the four buckets partition the run's
\* Issues (lint Issues and model Issues): each Issue is as often in the buckets
\* together as it is among the run's Issues, every bucket holds Issues of the run
\* only, in their order, and an Issue is in the bucket the first-match rule names
C7_BucketsPartition ==
    \A f \in Flows :
        CategorizedReport(f) =>
            /\ \A b \in Buckets : report[f].d[b].t = "list"
            /\ \A i \in DOMAIN all_issues[f] :
                  /\ Count(report[f].d["linter"].l, all_issues[f][i])
                       + Count(report[f].d["security"].l, all_issues[f][i])
                       + Count(report[f].d["performance"].l, all_issues[f][i])
                       + Count(report[f].d["issues"].l, all_issues[f][i])
                     = Count(all_issues[f], all_issues[f][i])
                  /\ Count(report[f].d[RuleBucket(all_issues[f][i])].l, all_issues[f][i])
                     = Count(all_issues[f], all_issues[f][i])
            /\ \A b \in Buckets :
                  report[f].d[b].l = SelectSeq(all_issues[f], LAMBDA x : RuleBucket(x) = b)

\* C7 witness: a report over lint Issues and model Issues, one of them matching both
\* "lint" and a security keyword, another a security and a performance keyword
C7_Witness ==
    /\ CategorizedReport(MainFlow)
    /\ \E i \in DOMAIN all_issues[MainFlow] : all_issues[MainFlow][i].src = "lint"
    /\ \E i \in DOMAIN all_issues[MainFlow] :
          /\ all_issues[MainFlow][i].category = LintUnsafe
          /\ all_issues[MainFlow][i].src = "model"
    /\ \E i \in DOMAIN all_issues[MainFlow] : all_issues[MainFlow][i].category = MemorySafety
    /\ report[MainFlow].d["linter"].l # << >>
    /\ report[MainFlow].d["security"].l # << >>

\* the Issues of sequence s whose category is cat
WithCategory(s, cat) == {i \in DOMAIN s : s[i].cat_kind = "str" /\ s[i].category = cat}

\* every Issue of flow f's run with category cat is in bucket b of the report, as
\* often as in the run, and in no other bucket
LandsIn(f, cat, b) ==
    \A i \in WithCategory(all_issues[f], cat) :
        /\ Count(report[f].d[b].l, all_issues[f][i]) = Count(all_issues[f], all_issues[f][i])
        /\ \A o \in Buckets \ {b} : Count(report[f].d[o].l, all_issues[f][i]) = 0

\* C8 (the claim as stated): whatever Issues precede or follow, "SQL Injection Risk"
\* lands in security, "N+1 Query" in performance and "Missing docstring" in issues
C8_AsStated ==
    \A f \in Flows :
        CategorizedReport(f) =>
            /\ LandsIn(f, SqlInjectionRisk, "security")
            /\ LandsIn(f, NPlusOneQuery, "performance")
            /\ LandsIn(f, MissingDocstring, "issues")

\* C8 (amended): whatever Issues precede or follow, "SQL Injection Risk" lands in
\* security, and "N+1 Query", which holds no keyword, lands in the general issues
\* bucket, as does "Missing docstring"
C8_Deterministic ==
    \A f \in Flows :
        CategorizedReport(f) =>
            /\ LandsIn(f, SqlInjectionRisk, "security")
            /\ LandsIn(f, NPlusOneQuery, "issues")
            /\ LandsIn(f, MissingDocstring, "issues")

\* C8 witness: after a lint Issue, "N+1 Query" follows "SQL Injection Risk" in the
\* run's Issues, and the report holds the first in security, the second in issues
C8_Witness ==
    /\ CategorizedReport(MainFlow)
    /\ Len(all_issues[MainFlow]) >= 3
    /\ all_issues[MainFlow][1].src = "lint"
    /\ \E i, j \in DOMAIN all_issues[MainFlow] :
          /\ i < j
          /\ all_issues[MainFlow][i].category = SqlInjectionRisk
          /\ all_issues[MainFlow][j].category = NPlusOneQuery
          /\ report[MainFlow].d["security"].l = <<all_issues[MainFlow][i]>>
          /\ report[MainFlow].d["issues"].l = <<all_issues[MainFlow][j]>>

\* C9: the segment of every file embedded in the prompt is at most 10000 + len(marker)
\* characters long; for a patch of more than 10000 characters it is the patch's first
\* 10000 characters followed by the marker, for any other patch it is the patch
C9_TruncationBound ==
    \A f \in Flows : \A i \in DOMAIN diff_context[f] :
        /\ TextLen(diff_context[f][i].diff) <= 10000 + TextLen(Marker)
        /\ TextLen(diff_context[f][i].patch) > 10000 =>
              /\ Prefix(diff_context[f][i].diff, 10000) = Prefix(diff_context[f][i].patch, 10000)
              /\ Drop(diff_context[f][i].diff, 10000) = Marker
              /\ TextLen(diff_context[f][i].diff) = 10000 + TextLen(Marker)
        /\ TextLen(diff_context[f][i].patch) <= 10000 =>
              diff_context[f][i].diff = diff_context[f][i].patch

\* C9 witness: one run embeds a patch of exactly 10000 characters, unchanged, and a
\* patch of 10001 characters, cut
C9_Witness ==
    /\ ReviewRun(MainFlow)
    /\ \E i, j \in DOMAIN diff_context[MainFlow] :
          /\ TextLen(diff_context[MainFlow][i].patch) = 10000
          /\ diff_context[MainFlow][i].diff = diff_context[MainFlow][i].patch
          /\ TextLen(diff_context[MainFlow][j].patch) = 10001
          /\ TextLen(diff_context[MainFlow][j].diff) = 10016

\* C10 (the claim as stated): when the text the generator returned to a review run
\* or a deep review is not valid JSON, the result is the salvaged object or else a
\* report with recommendation "Review" and a single low-severity Issue whose message
\* is the first 500 characters of the raw response, never the "AI Error" report
C10_ParseFailureNotTerminal ==
    \A f \in Flows :
        (/\ op[f] \in {"review", "deep"}
         /\ pc[f] = "returned"
         /\ exc[f] = NoExc
         /\ ~json_loads(ret[f]).ok)
            => /\ report[f].kind = "dict"
               /\ Get(report[f].d, "summary", JNone) # JStr("AI Error")
               /\ \/ /\ json_match(ret[f]).found
                     /\ json_loads(json_match(ret[f]).group).ok
                  \/ /\ Get(report[f].d, "recommendation", JNone) = JStr("Review")
                     /\ Len(report[f].d["issues"].l) = 1
                     /\ report[f].d["issues"].l[1].severity = "Low"
                     /\ report[f].d["issues"].l[1].message = Prefix(ret[f], 500)

\* the spans of text t that are one JSON object
ObjectSpans(t) ==
    {ij \in (DOMAIN t) \X (DOMAIN t) : ij[1] < ij[2] /\ IsObjectText(SubSeq(t, ij[1], ij[2]))}

\* t is prose, one valid JSON object, prose, and not valid JSON as a whole
ProseAroundObject(t) ==
    /\ ~json_loads(t).ok
    /\ Cardinality(ObjectSpans(t)) = 1
    /\ \A ij \in ObjectSpans(t) : \A k \in DOMAIN t \ (ij[1] .. ij[2]) : ~IsMember(t[k])

\* the object embedded in such a text
EmbeddedObject(t) ==
    LET ij == CHOOSE x \in ObjectSpans(t) : TRUE
    IN  json_loads(SubSeq(t, ij[1], ij[2])).d

\* C11 (the claim as stated): for a response that is prose, one valid JSON object and
\* prose (braces in the prose or not), analyze_full_code returns the embedded object
C11_SalvageEmbeddedObject ==
    \A f \in Flows :
        (/\ op[f] = "deep"
         /\ pc[f] = "returned"
         /\ exc[f] = NoExc
         /\ ProseAroundObject(ret[f]))
            => report[f] = DictReport(EmbeddedObject(ret[f]))

(***************************************************************************)
(* Claims about reconstruction (specification SpecPatch).                  *)
(***************************************************************************)
\* flow f has passed a file with a str patch to apply_patch_to_content
Reconstructed(f) == last_file[f].applied /\ ~last_file[f].patch.is_none

\* C12 (the claim as stated): apply_patch_to_content(original, "") returns original
C12_EmptyPatchIdentity ==
    \A f \in Flows :
        (Reconstructed(f) /\ last_file[f].patch.v = EmptyText)
            => last_file[f].reconstructed = Some(last_file[f].original)

\* the hunks of patch are complete, follow each other down the file, and the context
\* and deletion lines of each are the lines of original at the range the hunk names
HunksMatch(original, patch) ==
    /\ ReadablePatch(patch)
    /\ LET hs == ParseHunks(patch, 1).hunks
       IN  /\ \A i \in DOMAIN hs :
                 /\ hs[i].oldpos >= 1
                 /\ hs[i].oldpos + Len(OldLines(hs[i])) - 1 <= Len(original)
                 /\ OldLines(hs[i])
                      = SubSeq(original, hs[i].oldpos, hs[i].oldpos + Len(OldLines(hs[i])) - 1)
           /\ \A i \in DOMAIN hs : \A j \in DOMAIN hs :
                 i < j => hs[i].oldpos + Len(OldLines(hs[i])) <= hs[j].oldpos

\* original with, from the last hunk of hs up to the first, the lines of the hunk's
\* range replaced by the hunk's context and added lines
RECURSIVE Replaced(_, _)
Replaced(original, hs) ==
    IF hs = << >> THEN original
    ELSE LET h == hs[Len(hs)]
         IN  Replaced(SubSeq(original, 1, h.oldpos - 1)
                          \o NewLines(h)
                          \o SubSeq(original, h.oldpos + Len(OldLines(h)), Len(original)),
                      SubSeq(hs, 1, Len(hs) - 1))

\* C13 (the claim as stated): for a patch of well-formed hunks whose context and
\* deletion lines match the original, apply_patch_to_content returns the original
\* with each hunk range replaced by the hunk's lines and all other lines unchanged
C13_HunksApplied ==
    \A f \in Flows :
        (Reconstructed(f) /\ HunksMatch(last_file[f].original, last_file[f].patch.v))
            => last_file[f].reconstructed
                 = Some(Replaced(last_file[f].original,
                                 ParseHunks(last_file[f].patch.v, 1).hunks))

\* git apply has failed on the last file of flow f
PatchFailed(f) ==
    /\ Reconstructed(f)
    /\ git_apply(last_file[f].original, last_file[f].patch.v).returncode # 0

\* C14: when the patch of a file cannot be applied, apply_patch_to_content returns
\* None, not a text; the linter is not run for the file and adds no Issue, the
\* file's patch is appended to the diff context, and the run is at the head of the
\* loop for the next file
C14_PatchFailureConfined ==
    \A f \in Flows :
        PatchFailed(f) =>
            /\ last_file[f].reconstructed = NoneVal
            /\ ~last_file[f].linted
            /\ last_file[f].lint_issues = << >>
            /\ pc[f] = "files"
            /\ error[f] = NoExc
            /\ Len(diff_context[f]) >= 1
            /\ diff_context[f][Len(diff_context[f])].filename = last_file[f].filename
            /\ diff_context[f][Len(diff_context[f])].patch = last_file[f].patch.v
            /\ diff_context[f][Len(diff_context[f])].diff = Embedded(last_file[f].patch.v)

\* C14 witness: the first file's patch fails in its second hunk, and the run went on
\* to a second file, reconstructed it and collected its lint Issues
C14_Witness ==
    /\ ReviewRun(MainFlow)
    /\ pc[MainFlow] = "files"
    /\ Len(diff_context[MainFlow]) = 2
    /\ diff_context[MainFlow][1].patch = TwoHunkSecondFails
    /\ last_file[MainFlow].reconstructed = Some(PatchedText)
    /\ last_file[MainFlow].linted
    /\ all_issues[MainFlow] = last_file[MainFlow].lint_issues
    /\ Len(all_issues[MainFlow]) = 2

(***************************************************************************)
(* Claims about chat_with_agent (specification SpecChat).                  *)
(***************************************************************************)
ChatCall(f) == op[f] = "chat"
ChatOver(f) == ChatCall(f) /\ pc[f] = "returned"

\* C17: a chat whose message has a push keyword has returned without calling the
\* generator or the code-change path, whatever else the message contains, and its
\* push_requested is true exactly when the current file has a name and a content
C17_PushCheckFirst ==
    \A f \in Flows :
        (ChatCall(f) /\ AnyIn(push_keywords, Lower(chat[f].message))) =>
            /\ pc[f] = "returned"
            /\ chat[f].called = "none"
            /\ log[f] = << >>
            /\ "modified_code" \notin DOMAIN chat[f].returned
            /\ "push_requested" \in DOMAIN chat[f].returned
            /\ chat[f].returned["push_requested"]
                   = (filename_of(chat[f].context) # "" /\ content_of(chat[f].context) # "")

\* C17 witness: a message with a push keyword and code-change keywords, sent with a
\* named, non-empty current file, was answered with push_requested
C17_Witness ==
    /\ ChatOver(MainFlow)
    /\ chat[MainFlow].message = CommitFixRefactor
    /\ AnyIn(change_keywords, Lower(chat[MainFlow].message))
    /\ chat[MainFlow].returned["push_requested"]

CommitRules ==
    <<[words |-> {FixWord}, template |-> "fix: Updates to {filename}"],
      [words |-> {AddWord, NewWord}, template |-> "feat: Add changes to {filename}"],
      [words |-> {UpdateWord, ImproveWord}, template |-> "chore: Update {filename}"],
      [words |-> {RefactorWord}, template |-> "refactor: Refactor {filename}"],
      [words |-> {RemoveWord, DeleteWord}, template |-> "chore: Remove code from {filename}"]>>

Matching(message) == {i \in DOMAIN CommitRules : AnyIn(CommitRules[i].words, Lower(message))}

\* C19: a commit message is the one of the earliest rule whose word the message
\* contains, and the default "chore: AI-assisted changes to <file>" when there is none
C19_FirstMatchingRule ==
    \A f \in Flows :
        (ChatCall(f) /\ "commit_message" \in DOMAIN chat[f].returned) =>
            /\ chat[f].returned["commit_message"].parts = <<filename_of(chat[f].context)>>
            /\ chat[f].returned["commit_message"].template
                   = IF Matching(chat[f].message) = {}
                     THEN "chore: AI-assisted changes to {filename}"
                     ELSE CommitRules[MinOf(Matching(chat[f].message))].template

\* C19 witness: a message with both "fix" and "refactor" got the "fix:" message
C19_Witness ==
    /\ ChatOver(MainFlow)
    /\ Contains(Lower(chat[MainFlow].message), FixWord)
    /\ Contains(Lower(chat[MainFlow].message), RefactorWord)
    /\ "commit_message" \in DOMAIN chat[MainFlow].returned
    /\ chat[MainFlow].returned["commit_message"].template = "fix: Updates to {filename}"

(***************************************************************************)
(* Claims about concurrent callers (specification SpecThreads).            *)
(***************************************************************************)
\* the key after key k in the rotation of pool keys
Successor(keys, k) == keys[(IndexOf(keys, k) % Len(keys)) + 1]

\* C20: with any number of get_next calls under way on a rotator of two or more keys,
\* every step that hands out a key hands out the successor of the key handed out
\* before it, so none is handed out twice in a row and none is skipped
C20_RoundRobinUnderInterleaving ==
    [][\A p \in Providers :
           (ncalls'[p] = ncalls[p] + 1 /\ ncalls[p] > 0 /\ Len(keys_of(p)) >= 2)
               => last_key'[p] = Successor(keys_of(p), last_key[p])]_vars

(***************************************************************************)
(* More claims about the rotator and the orchestrator (specification Spec).*)
(***************************************************************************)
\* a step in which rotator p hands out a key
HandsOut(p) == ncalls'[p] = ncalls[p] + 1

\* a step in which flow f makes its first attempt on provider p in its generate call
FirstAttempt(f, p) ==
    /\ GenerateCall(f)
    /\ AttemptsOn(log[f], p) = << >>
    /\ Len(AttemptsOn(log'[f], p)) = 1

\* C21: the first attempt of a generate call on a provider uses the key after the one
\* the rotator handed out last, whichever call that was and however it ended; the
\* cursor moves only by one step of the rotation or, in a reset, to 0; and the first
\* key handed out after a reset is keys[0]
C21_CursorPersists ==
    [][\A p \in Providers :
           /\ (FirstAttempt(MainFlow, p) /\ ncalls[p] > 0)
                  => AttemptsOn(log'[MainFlow], p)[1].key = Successor(keys_of(p), last_key[p])
           /\ current_index'[p] # current_index[p]
                  => \/ HandsOut(p)
                        /\ current_index'[p] = (current_index[p] + 1) % Len(keys_of(p))
                     \/ op'[MainFlow] = "reset" /\ current_index'[p] = 0
           /\ (HandsOut(p) /\ ncalls[p] = 0 /\ keys_of(p) # << >>)
                  => last_key'[p] = keys_of(p)[1]]_vars

\* C21 witness: a generate call that began after an earlier generate call had used
\* the first Grok key made its first attempt with the second Grok key
C21_Witness ==
    /\ GenerateCall(MainFlow)
    /\ Len(GROK_KEYS) >= 2
    /\ ncalls["Grok"] = 2
    /\ Len(AttemptsOn(log[MainFlow], "Grok")) = 1
    /\ log[MainFlow][1].key = GROK_KEYS[2]

\* the keys of the attempts s
KeysOf(s) == {s[j].key : j \in DOMAIN s}

C23_CursorInRange ==
    /\ [](\A p \in Providers :
              keys_of(p) # << >> => (0 <= current_index[p] /\ current_index[p] < Len(keys_of(p))))
    /\ [][\A p \in Providers :
              /\ current_index'[p] # current_index[p]
                     => \/ /\ HandsOut(p)
                           /\ keys_of(p) # << >>
                           /\ current_index'[p] = (current_index[p] + 1) % Len(keys_of(p))
                        \/ /\ op'[MainFlow] = "reset"
                           /\ ncalls'[p] = 0
                           /\ current_index'[p] = 0
              /\ HandsOut(p)
                     => /\ (last_key'[p] = None) <=> (keys_of(p) = << >>)
                        /\ keys_of(p) = << >> => current_index'[p] = current_index[p]
                        /\ keys_of(p) # << >> => last_key'[p] = keys_of(p)[current_index[p] + 1]]_vars

\* C23 witness: the cursor of a pool of two keys is back at 0 after two get_next
\* calls, and the other rotator, which has no keys, has handed out None
C23_Witness ==
    /\ Len(GROK_KEYS) = 2
    /\ ncalls["Grok"] = 2
    /\ current_index["Grok"] = 0
    /\ GEMINI_KEYS = << >>
    /\ ncalls["Gemini"] > 0
    /\ last_key["Gemini"] = None

\* where generate goes on after the pass of provider p in cycle r gave nothing
AfterPass(p, r, m) ==
    IF p = "Grok" /\ GEMINI_KEYS # << >> THEN [pc |-> "gemini", retry |-> r]
    ELSE IF r + 1 >= m THEN [pc |-> "raised", retry |-> r]
    ELSE [pc |-> IF GROK_KEYS # << >> THEN "grok" ELSE "gemini", retry |-> r + 1]

\* generate of flow f stands where it goes on after the pass its last attempt was in
GoesOn(f) ==
    LET e == log[f][Len(log[f])]
        c == AfterPass(e.provider, e.retry, max_retries[f])
    IN  /\ pc[f] = c.pc
        /\ pc[f] # "raised" => (retry[f] = c.retry /\ attempt[f] = 0)

StartIndex(f, p) ==
    IF AttemptsOn(log[f], p) = << >> THEN current_index[p]
    ELSE IndexOf(keys_of(p), AttemptsOn(log[f], p)[1].key) - 1

\* provider p's cursor is advanced, from the start of flow f's call, by k (mod pool size)
AdvancedBy(f, p, k) ==
    keys_of(p) # << >> => current_index[p] = (StartIndex(f, p) + k) % Len(keys_of(p))

\* the attempts l[1 .. n] all raised
AllRaised(l, n) == \A i \in 1 .. n : l[i].kind = "error"

OtherProvider(p) == IF p = "Grok" THEN "Gemini" ELSE "Grok"

\* the generate call of flow f raised after max_retries full passes over each pool
\* and left both cursors where they were
FullyFailed(f) ==
    /\ pc[f] = "raised"
    /\ \A p \in Providers :
          /\ Len(AttemptsOn(log[f], p)) = max_retries[f] * Len(keys_of(p))
          /\ AdvancedBy(f, p, 0)

\* the generate call of flow f returned on the j-th attempt of a pass: that provider's
\* cursor is advanced by j, the other's by whole passes
SucceededOnJth(f) ==
    LET l == log[f]
        e == l[Len(l)]
        j == Len(Attempts(l, e.provider, e.retry))
        q == OtherProvider(e.provider)
    IN  /\ AdvancedBy(f, e.provider, j)
        /\ AdvancedBy(f, q, 0)
        /\ keys_of(q) # << >> => Len(AttemptsOn(l, q)) % Len(keys_of(q)) = 0

generate_content(f) == generate(f, DefaultRetries)

NextCalls ==
    \E f \in Flows :
        \/ generate_content(f)
        \/ try_grok(f)
        \/ try_gemini(f)

SpecCalls == Init /\ [][NextCalls]_vars

\* the passes of the log l: a provider and a cycle with at least one attempt
Passes(l) == {<<l[i].provider, l[i].retry>> : i \in DOMAIN l}

\* C30: in no pass of a generate call is a credential attempted twice (which, a pass
\* having at most as many attempts as the pool has credentials, would leave another
\* credential of the pool unattempted), whatever the other call does meanwhile
C30_NoRepeatWithinPass ==
    \A f \in Flows :
        GenerateCall(f) =>
            \A c \in Passes(log[f]) :
                LET s == Attempts(log[f], c[1], c[2])
                IN  \A i \in DOMAIN s : \A j \in DOMAIN s : s[i].key = s[j].key => i = j

(***************************************************************************)
(* The pushing agent: the endpoint /api/push-to-branch and                 *)
(* push_file_to_branch.  A SHA and a branch are strings, None when the     *)
(* payload has no such key; a content is the sequence of the code points   *)
(* of its characters, << >> for "" and for a payload without content.      *)
(* owner, repo, path and github_token are taken as present.                *)
(***************************************************************************)
\* Python truthiness of an optional string
TruthyStr(x) == x # None /\ x # ""

\* str.encode('utf-8'), for code points below 2048
RECURSIVE encode_utf8(_)
encode_utf8(c) ==
    IF c = << >> THEN << >>
    ELSE (IF Head(c) < 128 THEN <<Head(c)>>
          ELSE <<192 + (Head(c) \div 64), 128 + (Head(c) % 64)>>) \o encode_utf8(Tail(c))

\* base64.b64encode: the indices in the base64 alphabet, 64 for the padding "="
b64encode(bytes) ==
    LET n == Len(bytes)
        Byte(i) == IF i <= n THEN bytes[i] ELSE 0
        Triple(g) == Byte(3 * g - 2) * 65536 + Byte(3 * g - 1) * 256 + Byte(3 * g)
        Shift(q) == IF q = 0 THEN 262144 ELSE IF q = 1 THEN 4096 ELSE IF q = 2 THEN 64 ELSE 1
    IN  [k \in 1..(4 * ((n + 2) \div 3)) |->
            LET g == ((k - 1) \div 4) + 1
                q == (k - 1) % 4
            IN  IF q >= 2 /\ 3 * (g - 1) + q > n THEN 64
                ELSE (Triple(g) \div Shift(q)) % 64]

DefaultMessage == "Update file via AI Editor"

\* what the payloads followed carry
PayloadShas == {None, "s1", "s2"}
PayloadContents == {<< >>, <<72, 105>>, <<233>>}
PayloadMessages == {None, "fix typo"}
PayloadBranches == {None, "main", "dev"}

\* the answers of GitHub's contents API to the GET: a status, and the "sha" member of
\* the body (None when the body has none); status 0 stands for a raised exception
GetResponses ==
    {[status |-> 0, sha |-> None], [status |-> 404, sha |-> None],
     [status |-> 500, sha |-> None], [status |-> 200, sha |-> None],
     [status |-> 200, sha |-> "s1"], [status |-> 200, sha |-> "s3"]}

\* the answers to the PUT: a status and the SHA of the new blob
PutResponses ==
    {[status |-> 0, sha |-> None], [status |-> 200, sha |-> "s4"],
     [status |-> 201, sha |-> "s4"], [status |-> 409, sha |-> None],
     [status |-> 422, sha |-> None]}

HTTPException(code) == [ok |-> FALSE, kind |-> "HTTPException", status_code |-> code, new_sha |-> None]
NetworkError == [ok |-> FALSE, kind |-> "Network error", status_code |-> 0, new_sha |-> None]
PushFailed(code) == [ok |-> FALSE, kind |-> "error", status_code |-> code, new_sha |-> None]
PushOk(r) == [ok |-> TRUE, kind |-> "File committed", status_code |-> r.status, new_sha |-> r.sha]

\* the SHA push_file_to_branch holds after the GET answered g, called with sha
current_sha(g, sha) ==
    IF g.status = 200 THEN g.sha
    ELSE IF g.status = 404 THEN None
    ELSE sha

\* final_sha = current_sha if current_sha else sha
final_sha(cur, sha) == IF TruthyStr(cur) THEN cur ELSE sha

\* the body of the PUT
put_data(message, content, branch, final) ==
    [message |-> message, content |-> b64encode(encode_utf8(content)), branch |-> branch,
     has_sha |-> TruthyStr(final), sha |-> IF TruthyStr(final) THEN final ELSE None]

\* the endpoint: reads the payload, answers 400 unless every field is truthy,
\* and calls push_file_to_branch
push_to_branch ==
    /\ push.pc = "idle"
    /\ \E sha \in PayloadShas, content \in PayloadContents,
          message \in PayloadMessages, branch \in PayloadBranches :
          LET msg == IF message = None THEN DefaultMessage ELSE message
              call == [NoPush EXCEPT !.sha = sha, !.content = content,
                                     !.message = msg, !.branch = branch]
          IN  IF TruthyStr(sha) /\ content # << >> /\ TruthyStr(branch)
              THEN push' = [call EXCEPT !.pc = "get"]
              ELSE push' = [call EXCEPT !.pc = "done", !.result = HTTPException(400)]
    /\ UNCHANGED <<orch_vars, review_vars, chat, frame>>

\* push_file_to_branch, step 1: the GET of the path on the branch, up to the PUT's body
get_current_sha ==
    /\ push.pc = "get"
    /\ \E g \in GetResponses :
          IF g.status = 0
          THEN push' = [push EXCEPT !.pc = "done", !.got = g, !.result = NetworkError]
          ELSE LET cur == current_sha(g, push.sha)
               IN  push' = [push EXCEPT
                       !.pc = "put", !.got = g, !.current_sha = cur,
                       !.data = put_data(push.message, push.content, push.branch,
                                         final_sha(cur, push.sha))]
    /\ UNCHANGED <<orch_vars, review_vars, chat, frame>>

\* push_file_to_branch, step 3: the PUT and the answer built from its response
put_file ==
    /\ push.pc = "put"
    /\ \E r \in PutResponses :
          push' = [push EXCEPT
              !.pc = "done", !.put = r,
              !.result = IF r.status = 0 THEN NetworkError
                         ELSE IF r.status \in {200, 201} THEN PushOk(r)
                         ELSE PushFailed(r.status)]
    /\ UNCHANGED <<orch_vars, review_vars, chat, frame>>

\* the endpoint has answered; the next request can come
push_answered ==
    /\ push.pc = "done"
    /\ push' = NoPush
    /\ UNCHANGED <<orch_vars, review_vars, chat, frame>>

InitPush ==
    /\ Init
    /\ GROK_KEYS = << >>
    /\ GEMINI_KEYS = << >>

NextPush ==
    \/ push_to_branch
    \/ get_current_sha
    \/ put_file
    \/ push_answered

SpecPush == InitPush /\ [][NextPush]_vars

(***************************************************************************)
(* Claims about the pushing agent (specification SpecPush).                *)
(***************************************************************************)
\* the PUT of the running push has been prepared or sent
WriteIssued == push.data # NoData

\* C25: before the write the current SHA of the path is fetched; a file found: the
\* write carries the fetched SHA; no file at the path: the write has no sha field
C25_FetchedShaWins ==
    WriteIssued =>
        /\ push.got # NoRequest
        /\ (push.got.status = 200 /\ TruthyStr(push.got.sha)) =>
               (push.data.has_sha /\ push.data.sha = push.got.sha)
        /\ push.got.status = 404 => ~push.data.has_sha

(***************************************************************************)
(* More claims about the review pipeline (specifications SpecPatch and     *)
(* SpecReview).                                                            *)
(***************************************************************************)
\* the loop of the review run of flow f has handled a file whose fetch gave ""
FetchedNothing(f) ==
    /\ ReviewRun(f)
    /\ last_file[f] # NoFile
    /\ last_file[f].original = EmptyText

\* C24: for a file whose original content came back empty (no raw_url, a failed
\* fetch, a status other than 200), apply_patch_to_content was not called and the
\* linter was not run
C24_EmptyFetchSkipsReconstruction ==
    \A f \in Flows :
        FetchedNothing(f) => (~last_file[f].applied /\ ~last_file[f].linted)

\* the Issue is what run_linter builds from one pylint message
FromAdapter(issue) ==
    /\ issue.cat_kind = "str"
    /\ issue.category = Linting
    /\ issue.suggestion = "Fix linting error"
    /\ \E k \in DOMAIN PylintMessages :
          /\ issue.severity = PylintMessages[k].type
          /\ issue.line = PylintMessages[k].line
          /\ issue.message = LintMessage(PylintMessages[k])

InReport(f, x) ==
    /\ report[f].kind = "dict"
    /\ \E k \in DOMAIN report[f].d :
          /\ report[f].d[k].t = "list"
          /\ \E j \in DOMAIN report[f].d[k].l : report[f].d[k].l[j] = x

\* C29: every lint Issue collected during a review run is in the report the run
\* returned, also when generate_content raised or the response could not be parsed
C29_LintFindingsSurvive ==
    \A f \in Flows :
        (ReviewRun(f) /\ pc[f] = "returned") =>
            \A i \in DOMAIN all_issues[f] :
                all_issues[f][i].src = "lint" => InReport(f, all_issues[f][i])

====
